---- MODULE Spec2Model ----
(***************************************************************************)
(* Model of the knowledge-graph engine of mcp-knowledge-graph:             *)
(* KnowledgeGraphManager (src/src/core/KnowledgeGraphManager.ts), its      *)
(* newline-delimited JSON graph file and its working-memory context.       *)
(*                                                                         *)
(* JavaScript objects are modelled as ordered property lists: a sequence   *)
(* of <<key, value>> pairs in insertion order, <<key>> standing for a      *)
(* property whose value is undefined.  Timestamps are integers (the clock  *)
(* `now`); ISO-8601 strings of one format order as their instants do.      *)
(* Scores and confidences are counted in tenths (10 is 1.0).               *)
(***************************************************************************)
EXTENDS Integers, Sequences, FiniteSets, TLC

VARIABLES memoryFile, workingMemory, workingMemoryFile, now, history, pending

vars == <<memoryFile, workingMemory, workingMemoryFile, now, history, pending>>

(***************************************************************************)
(* Bounds of the model: the number of calls in a behaviour, per            *)
(* specification.                                                          *)
(***************************************************************************)
MaxCalls == 3
MaxHierarchyCalls == 4
MaxCascadeCalls == 6
MaxRelationCalls == 5
MaxRoundTrips == 2
MaxLines == 3
MaxLoadCalls == 1
MaxRaceCalls == 3
MaxSearchCalls == 3
MaxSearchDepth == 3
MaxWorkingMemoryCalls == 4
MaxQueryCalls == 5
MaxStaleCalls == 3
MaxDays == 2
MaxTextCalls == 3
MaxTextDays == 1
MaxSearchesCalls == 4
MaxHealthCalls == 3
MaxBatchCalls == 3
MaxBatch == 2
MaxProjectCalls == 3
MaxObservationCalls == 3
MaxItems == 1
MaxContents == 2
MaxConfidenceCalls == 3
MaxRelationBatch == 1
MaxDescendCalls == 3
MaxDeleteProjectCalls == 4
MaxStartupCalls == 3

(***************************************************************************)
(* Input sets.  NoArg is an argument left out (undefined); the empty       *)
(* string is the falsy name the code takes for "no parent".                *)
(***************************************************************************)
Names == {"A", "B", "C"}
RelationTypes == {"knows", "uses"}
NoArg == "\\undefined"
NoName == ""

(***************************************************************************)
(* JavaScript objects as ordered property lists.                           *)
(***************************************************************************)
Has(o, k) == \E i \in 1..Len(o) : o[i][1] = k

KeyIndex(o, k) == CHOOSE i \in 1..Len(o) : o[i][1] = k

Defined(o, k) == Has(o, k) /\ Len(o[KeyIndex(o, k)]) = 2

Get(o, k) == o[KeyIndex(o, k)][2]

SetProp(o, p) ==
  IF Has(o, p[1])
    THEN [i \in 1..Len(o) |-> IF o[i][1] = p[1] THEN p ELSE o[i]]
    ELSE Append(o, p)

Set(o, k, v) == SetProp(o, <<k, v>>)

SetUndefined(o, k) == SetProp(o, <<k>>)

Prop(k, v) == IF v = NoArg THEN <<k>> ELSE <<k, v>>

Copy(o, k) == IF Defined(o, k) THEN <<k, Get(o, k)>> ELSE <<k>>

Truthy(s) == s # NoArg /\ s # ""

StrTruthy(o, k) == Defined(o, k) /\ Get(o, k) # ""

SameValue(o1, k1, o2, k2) ==
  \/ ~Defined(o1, k1) /\ ~Defined(o2, k2)
  \/ Defined(o1, k1) /\ Defined(o2, k2) /\ Get(o1, k1) = Get(o2, k2)

Includes(s, x) == \E i \in 1..Len(s) : s[i] = x

removeAt(s, i) == SubSeq(s, 1, i - 1) \o SubSeq(s, i + 1, Len(s))

(***************************************************************************)
(* JSON text.  A line of text is blank, malformed, or the text of an       *)
(* object.  The text of an object is given by the object it parses to      *)
(* (kv, the properties in textual order) and by what parsing drops: white  *)
(* space between the tokens (sp) and the values of keys that occur again   *)
(* later in the text (shadowed).  JSON.stringify writes neither, and       *)
(* leaves out the properties whose value is undefined.                     *)
(***************************************************************************)
ObjectKeys == {"metadata"}

RECURSIVE DropUndefined(_)
DropUndefined(o) ==
  IF o = <<>> THEN <<>>
  ELSE LET p == Head(o)
           rest == DropUndefined(Tail(o))
       IN IF Len(p) = 1 THEN rest
          ELSE IF p[1] \in ObjectKeys
                 THEN <<<<p[1], DropUndefined(p[2])>>>> \o rest
                 ELSE <<p>> \o rest

JSONstringify(o) ==
  [form |-> "json", sp |-> FALSE, shadowed |-> <<>>, kv |-> DropUndefined(o)]

JSONparse(line) == line.kv

BlankLine == [form |-> "blank", sp |-> FALSE, shadowed |-> <<>>, kv |-> <<>>]

ParseFails(line) == line.form # "json"

(***************************************************************************)
(* Persistence layer.  The graph file is absent or holds a text; the text  *)
(* is the sequence of its lines, the empty text being no line at all       *)
(* (split gives it one blank line, join of no line gives it back).         *)
(***************************************************************************)
Split(lines) == IF lines = <<>> THEN <<BlankLine>> ELSE lines

Join(lines) == IF lines = <<BlankLine>> THEN <<>> ELSE lines

NonBlankLines(file) == SelectSeq(Split(file.lines), LAMBDA line : line.form # "blank")

IsType(item, t) == Defined(item, "type") /\ Get(item, "type") = t

(* Variant: loadGraph recovering line by line, malformed lines left out. *)
loadSkipsMalformed(file) == FALSE

loadFails(file) ==
  file.exists /\ \E i \in 1..Len(NonBlankLines(file)) : ParseFails(NonBlankLines(file)[i])

EmptyGraph == [entities |-> <<>>, relations |-> <<>>]

(* Variant: loadGraph reading the lines last to first. *)
reduceLinesReversed(graph, lines) ==
  LET items == [i \in 1..Len(lines) |-> JSONparse(lines[Len(lines) + 1 - i])]
  IN [entities |-> graph.entities \o SelectSeq(items, LAMBDA item : IsType(item, "entity")),
      relations |-> graph.relations
                      \o SelectSeq(items, LAMBDA item : IsType(item, "relation"))]

reduceLines(graph, lines) ==
  LET items == [i \in 1..Len(lines) |-> JSONparse(lines[i])]
  IN [entities |-> graph.entities \o SelectSeq(items, LAMBDA item : IsType(item, "entity")),
      relations |-> graph.relations
                      \o SelectSeq(items, LAMBDA item : IsType(item, "relation"))]

loadGraph(file) ==
  IF ~file.exists THEN EmptyGraph ELSE reduceLines(EmptyGraph, NonBlankLines(file))

withType(t, o) ==
  <<IF Has(o, "type") THEN o[KeyIndex(o, "type")] ELSE <<"type", t>> >>
    \o SelectSeq(o, LAMBDA p : p[1] # "type")

entityLine(e) == JSONstringify(withType("entity", e))

relationLine(r) == JSONstringify(withType("relation", r))

saveGraphLines(graph) ==
  [i \in 1..Len(graph.entities) |-> entityLine(graph.entities[i])]
    \o [i \in 1..Len(graph.relations) |-> relationLine(graph.relations[i])]

saveGraph(graph) == [exists |-> TRUE, lines |-> Join(saveGraphLines(graph))]

(***************************************************************************)
(* Working memory.                                                         *)
(***************************************************************************)
DefaultWorkingMemory(t) ==
  [activeEntities |-> <<>>, recentlyDiscussed |-> <<>>, currentProject |-> NoArg,
   recentProjects |-> <<>>, currentTopic |-> "", pendingInformation |-> <<>>,
   lastUpdated |-> t]

saveWorkingMemory(wm, t) == [wm EXCEPT !.lastUpdated = t]

writeWorkingMemory(wm) == [exists |-> TRUE, content |-> wm]

findRecentIndex(recent, entityName) ==
  IF \E i \in 1..Len(recent) : recent[i].entity = entityName
    THEN CHOOSE i \in 1..Len(recent) :
           /\ recent[i].entity = entityName
           /\ \A j \in 1..(i - 1) : recent[j].entity # entityName
    ELSE 0

RECURSIVE InsertByRelevance(_, _)
InsertByRelevance(sorted, x) ==
  IF sorted = <<>> THEN <<x>>
  ELSE IF Head(sorted).relevanceScore >= x.relevanceScore
         THEN <<Head(sorted)>> \o InsertByRelevance(Tail(sorted), x)
         ELSE <<x>> \o sorted

RECURSIVE sortByRelevance(_)
sortByRelevance(recent) ==
  IF recent = <<>> THEN <<>>
  ELSE InsertByRelevance(sortByRelevance(SubSeq(recent, 1, Len(recent) - 1)),
                         recent[Len(recent)])

RecentLimit == 10

(* Variant: the list is never cut. *)
keepAll(recent) == recent

keepTop(recent) ==
  IF Len(recent) > RecentLimit THEN SubSeq(recent, 1, RecentLimit) ELSE recent

InitialRelevance == 10

RelevanceStep == 1

updateEntityAccess(wm, entityName, t) ==
  LET active == IF ~Includes(wm.activeEntities, entityName)
                  THEN Append(wm.activeEntities, entityName)
                  ELSE wm.activeEntities
      recentIndex == findRecentIndex(wm.recentlyDiscussed, entityName)
      updated == IF recentIndex # 0
                   THEN [wm.recentlyDiscussed EXCEPT
                           ![recentIndex].timestamp = t,
                           ![recentIndex].relevanceScore = @ + RelevanceStep]
                   ELSE Append(wm.recentlyDiscussed,
                               [entity |-> entityName, timestamp |-> t,
                                relevanceScore |-> InitialRelevance])
  IN saveWorkingMemory([wm EXCEPT !.activeEntities = active,
                                  !.recentlyDiscussed = keepTop(sortByRelevance(updated))],
                       t)

(***************************************************************************)
(* Graph engine.  Every operation loads the graph file and works on the    *)
(* loaded copy.  Its outcome is a record: how it ended (the value it       *)
(* returns or the error it throws), whether it reached saveGraph and with  *)
(* which graph, the working memory it leaves and whether it wrote the      *)
(* working-memory file.                                                    *)
(***************************************************************************)
Ends(outcome, wm) ==
  [outcome |-> outcome, save |-> FALSE, graph |-> EmptyGraph, wm |-> wm,
   wmSaved |-> FALSE]

Saves(outcome, graph, wm, wmSaved) ==
  [outcome |-> outcome, save |-> TRUE, graph |-> graph, wm |-> wm, wmSaved |-> wmSaved]

HasName(e, name) == Defined(e, "name") /\ Get(e, "name") = name

someEntity(entities, name) == \E i \in 1..Len(entities) : HasName(entities[i], name)

findIndex(entities, name) ==
  IF someEntity(entities, name)
    THEN CHOOSE i \in 1..Len(entities) :
           /\ HasName(entities[i], name)
           /\ \A j \in 1..(i - 1) : ~HasName(entities[j], name)
    ELSE 0

Children(e) == IF Defined(e, "children") THEN Get(e, "children") ELSE <<>>

pushChild(e, child) == Set(e, "children", Append(Children(e), child))

removeChild(e, child) ==
  IF Defined(e, "children")
    THEN Set(e, "children", SelectSeq(Get(e, "children"), LAMBDA c : c # child))
    ELSE e

newEntity(entityName, entityType, observations, projectId, parentEntity, tags, t) ==
  << <<"name", entityName>>, <<"entityType", entityType>>,
     <<"observations", observations>>, <<"lastAccessed", t>>, <<"createdAt", t>>,
     <<"accessCount", 1>>, <<"tags", tags>>, Prop("projectId", projectId),
     Prop("parentEntity", parentEntity), <<"children", <<>> >> >>

readGraphSummary(entity) ==
  << Copy(entity, "name"), Copy(entity, "entityType"), Copy(entity, "projectId"),
     <<"tags", IF Defined(entity, "tags") THEN Get(entity, "tags") ELSE <<>> >>,
     Copy(entity, "parentEntity"),
     IF Defined(entity, "children")
       THEN <<"hasChildren", Len(Get(entity, "children")) > 0>> ELSE <<"hasChildren">>,
     <<"isDeprecated", Defined(entity, "isDeprecated") /\ Get(entity, "isDeprecated")>> >>

(* Variant: readGraph honouring fullDetails: the stored entities when it is true. *)
readGraphFull(file, fullDetails) ==
  LET graph == loadGraph(file)
  IN [entities |-> [i \in 1..Len(graph.entities) |->
                      IF fullDetails THEN graph.entities[i]
                      ELSE readGraphSummary(graph.entities[i])],
      relations |-> graph.relations]

readGraph(file, fullDetails) ==
  LET graph == loadGraph(file)
  IN [entities |-> [i \in 1..Len(graph.entities) |-> readGraphSummary(graph.entities[i])],
      relations |-> graph.relations]

(* Variant: getEntity touching working memory before looking the entity up. *)
getEntityTouchesFirst(graph, wm, entityName, t) ==
  IF someEntity(graph.entities, entityName)
    THEN [Ends("entity", updateEntityAccess(wm, entityName, t)) EXCEPT !.wmSaved = TRUE]
    ELSE [Ends("null", updateEntityAccess(wm, entityName, t)) EXCEPT !.wmSaved = TRUE]

getEntityOutcome(graph, wm, entityName, t) ==
  IF someEntity(graph.entities, entityName)
    THEN [Ends("entity", updateEntityAccess(wm, entityName, t)) EXCEPT !.wmSaved = TRUE]
    ELSE Ends("null", wm)

(* Variant: createEntity without the existence check. *)
createEntityUnchecked(graph, wm, entityName, entityType, observations, projectId, parentEntity, tags, t) ==
  LET created == newEntity(entityName, entityType, observations, projectId,
                           parentEntity, tags, t)
      parentIndex == findIndex(graph.entities, parentEntity)
      withParent == IF Truthy(parentEntity)
                      THEN [graph.entities EXCEPT
                              ![parentIndex] = pushChild(@, entityName)]
                      ELSE graph.entities
  IN IF Truthy(parentEntity) /\ parentIndex = 0 THEN Ends("throw:parent", wm)
     ELSE Saves("entity", [graph EXCEPT !.entities = Append(withParent, created)],
                updateEntityAccess(wm, entityName, t), TRUE)

(* Variant: createEntity attaching to the parent and saving before it throws. *)
createEntitySavesFirst(graph, wm, entityName, entityType, observations, projectId, parentEntity, tags, t) ==
  LET created == newEntity(entityName, entityType, observations, projectId,
                           parentEntity, tags, t)
      parentIndex == findIndex(graph.entities, parentEntity)
      withParent == IF Truthy(parentEntity) /\ parentIndex # 0
                      THEN [graph.entities EXCEPT
                              ![parentIndex] = pushChild(@, entityName)]
                      ELSE graph.entities
  IN IF someEntity(graph.entities, entityName)
       THEN Saves("throw:exists", [graph EXCEPT !.entities = withParent], wm, FALSE)
     ELSE IF Truthy(parentEntity) /\ parentIndex = 0
       THEN Saves("throw:parent", [graph EXCEPT !.entities = Append(withParent, created)],
                  wm, FALSE)
     ELSE Saves("entity", [graph EXCEPT !.entities = Append(withParent, created)],
                updateEntityAccess(wm, entityName, t), TRUE)

createEntityOutcome(graph, wm, entityName, entityType, observations, projectId, parentEntity, tags, t) ==
  LET created == newEntity(entityName, entityType, observations, projectId,
                           parentEntity, tags, t)
      parentIndex == findIndex(graph.entities, parentEntity)
      withParent == IF Truthy(parentEntity)
                      THEN [graph.entities EXCEPT
                              ![parentIndex] = pushChild(@, entityName)]
                      ELSE graph.entities
  IN IF someEntity(graph.entities, entityName) THEN Ends("throw:exists", wm)
     ELSE IF Truthy(parentEntity) /\ parentIndex = 0 THEN Ends("throw:parent", wm)
     ELSE Saves("entity", [graph EXCEPT !.entities = Append(withParent, created)],
                updateEntityAccess(wm, entityName, t), TRUE)

(* Variant: the old parent keeps the name among its children. *)
keptByParent(entities, entity, entityName) == entities

detachFromParent(entities, entity, entityName) ==
  LET oldParentIndex == findIndex(entities, Get(entity, "parentEntity"))
  IN IF StrTruthy(entity, "parentEntity") /\ oldParentIndex # 0
       THEN [entities EXCEPT ![oldParentIndex] = removeChild(@, entityName)]
       ELSE entities

parentChanges(entity, updates) ==
  Defined(updates, "parentEntity")
    /\ ~SameValue(updates, "parentEntity", entity, "parentEntity")

newParentMissing(entities, entity, updates) ==
  /\ parentChanges(entity, updates)
  /\ StrTruthy(updates, "parentEntity")
  /\ findIndex(entities, Get(updates, "parentEntity")) = 0

reparent(entities, entity, entityName, updates) ==
  LET detached == detachFromParent(entities, entity, entityName)
      newParentIndex == findIndex(detached, Get(updates, "parentEntity"))
  IN IF ~parentChanges(entity, updates) THEN entities
     ELSE IF StrTruthy(updates, "parentEntity")
       THEN [detached EXCEPT ![newParentIndex] = pushChild(@, entityName)]
       ELSE detached

AccessCount(e) == IF Defined(e, "accessCount") THEN Get(e, "accessCount") ELSE 0

applyUpdates(entity, updates, t) ==
  LET e1 == IF Defined(updates, "observations")
              THEN Set(entity, "observations", Get(updates, "observations")) ELSE entity
      e2 == IF StrTruthy(updates, "entityType")
              THEN Set(e1, "entityType", Get(updates, "entityType")) ELSE e1
      e3 == IF Defined(updates, "projectId")
              THEN Set(e2, "projectId", Get(updates, "projectId")) ELSE e2
      e4 == IF Defined(updates, "tags")
              THEN Set(e3, "tags", Get(updates, "tags")) ELSE e3
      e5 == IF Defined(updates, "parentEntity")
              THEN Set(e4, "parentEntity", Get(updates, "parentEntity")) ELSE e4
      e6 == IF Defined(updates, "isDeprecated")
              THEN Set(e5, "isDeprecated", Get(updates, "isDeprecated")) ELSE e5
  IN Set(Set(e6, "lastAccessed", t), "accessCount", AccessCount(e6) + 1)

(* Variant: updateEntity saving the detachment from the old parent before it throws. *)
updateEntitySavesDetached(graph, wm, entityName, updates, t) ==
  LET entityIndex == findIndex(graph.entities, entityName)
      entity == graph.entities[entityIndex]
      reparented == reparent(graph.entities, entity, entityName, updates)
      updated == [reparented EXCEPT ![entityIndex] = applyUpdates(@, updates, t)]
  IN IF entityIndex = 0 THEN Ends("null", wm)
     ELSE IF newParentMissing(graph.entities, entity, updates)
       THEN Saves("throw:parent",
                  [graph EXCEPT
                     !.entities = detachFromParent(graph.entities, entity, entityName)],
                  wm, FALSE)
     ELSE Saves("entity", [graph EXCEPT !.entities = updated],
                updateEntityAccess(wm, entityName, t), TRUE)

updateEntityOutcome(graph, wm, entityName, updates, t) ==
  LET entityIndex == findIndex(graph.entities, entityName)
      entity == graph.entities[entityIndex]
      reparented == reparent(graph.entities, entity, entityName, updates)
      updated == [reparented EXCEPT ![entityIndex] = applyUpdates(@, updates, t)]
  IN IF entityIndex = 0 THEN Ends("null", wm)
     ELSE IF newParentMissing(graph.entities, entity, updates) THEN Ends("throw:parent", wm)
     ELSE Saves("entity", [graph EXCEPT !.entities = updated],
                updateEntityAccess(wm, entityName, t), TRUE)

(* Variant: deleteEntity leaving the parentEntity of the children in place. *)
orphanChildrenSkipped(entities, childNames) == entities

RECURSIVE orphanChildren(_, _)
orphanChildren(entities, childNames) ==
  IF childNames = <<>> THEN entities
  ELSE LET childIndex == findIndex(entities, Head(childNames))
       IN orphanChildren(
            IF childIndex # 0
              THEN [entities EXCEPT ![childIndex] = SetUndefined(@, "parentEntity")]
              ELSE entities,
            Tail(childNames))

(* Variant: deleteEntity dropping only the relations from the entity to itself. *)
removeRelationsOfBoth(relations, entityName) ==
  SelectSeq(relations,
         LAMBDA relation : Get(relation, "from") # entityName
                             \/ Get(relation, "to") # entityName)

removeRelationsOf(relations, entityName) ==
  SelectSeq(relations,
         LAMBDA relation : Get(relation, "from") # entityName
                             /\ Get(relation, "to") # entityName)

(* Variant: only activeEntities is filtered. *)
forgetActiveOnly(wm, entityName) ==
  [wm EXCEPT !.activeEntities = SelectSeq(@, LAMBDA e : e # entityName)]

forgetEntity(wm, entityName) ==
  [wm EXCEPT !.activeEntities = SelectSeq(@, LAMBDA e : e # entityName),
             !.recentlyDiscussed = SelectSeq(@, LAMBDA item : item.entity # entityName)]

deleteEntityOutcome(graph, wm, entityName, t) ==
  LET entityIndex == findIndex(graph.entities, entityName)
      detached == detachFromParent(graph.entities, graph.entities[entityIndex], entityName)
      orphaned == orphanChildren(detached, Children(detached[entityIndex]))
  IN IF entityIndex = 0 THEN Ends("false", wm)
     ELSE Saves("true",
                [entities |-> removeAt(orphaned, entityIndex),
                 relations |-> removeRelationsOf(graph.relations, entityName)],
                saveWorkingMemory(forgetEntity(wm, entityName), t), TRUE)

(* Variant: deprecateEntity as a hard delete. *)
deprecateByDeleting(graph, wm, entityName, t) ==
  deleteEntityOutcome(graph, wm, entityName, t)

deprecateEntityOutcome(graph, wm, entityName, t) ==
  updateEntityOutcome(graph, wm, entityName, << <<"isDeprecated", TRUE>> >>, t)
isTriple(relation, sourceEntity, targetEntity, relationType) ==
  /\ Get(relation, "from") = sourceEntity
  /\ Get(relation, "to") = targetEntity
  /\ Get(relation, "relationType") = relationType

findRelationIndex(relations, sourceEntity, targetEntity, relationType) ==
  IF \E i \in 1..Len(relations) :
       isTriple(relations[i], sourceEntity, targetEntity, relationType)
    THEN CHOOSE i \in 1..Len(relations) :
           /\ isTriple(relations[i], sourceEntity, targetEntity, relationType)
           /\ \A j \in 1..(i - 1) :
                ~isTriple(relations[j], sourceEntity, targetEntity, relationType)
    ELSE 0

DefaultConfidence == 10

newRelation(sourceEntity, targetEntity, relationType, metadata, t) ==
  << <<"from", sourceEntity>>, <<"to", targetEntity>>,
     <<"relationType", relationType>>, <<"createdAt", t>>,
     <<"metadata",
       << <<"confidence",
            IF Defined(metadata, "confidence") /\ Get(metadata, "confidence") # 0
              THEN Get(metadata, "confidence") ELSE DefaultConfidence>>,
          Copy(metadata, "source"), Copy(metadata, "notes") >> >> >>

(* Variant: createRelation without the duplicate check. *)
createRelationUnchecked(graph, wm, sourceEntity, targetEntity, relationType, metadata, t) ==
  IF ~someEntity(graph.entities, sourceEntity) THEN Ends("throw:source", wm)
  ELSE IF ~someEntity(graph.entities, targetEntity) THEN Ends("throw:target", wm)
  ELSE Saves("relation",
             [graph EXCEPT !.relations =
                Append(@, newRelation(sourceEntity, targetEntity, relationType,
                                      metadata, t))],
             updateEntityAccess(updateEntityAccess(wm, sourceEntity, t), targetEntity, t),
             TRUE)

(* Variant: createRelation touching the entities it found before it throws. *)
createRelationTouchesFirst(graph, wm, sourceEntity, targetEntity, relationType, metadata, t) ==
  IF ~someEntity(graph.entities, sourceEntity) THEN Ends("throw:source", wm)
  ELSE IF ~someEntity(graph.entities, targetEntity)
    THEN [Ends("throw:target", updateEntityAccess(wm, sourceEntity, t))
            EXCEPT !.wmSaved = TRUE]
  ELSE IF findRelationIndex(graph.relations, sourceEntity, targetEntity,
                            relationType) # 0
    THEN [Ends("throw:exists",
               updateEntityAccess(updateEntityAccess(wm, sourceEntity, t),
                                  targetEntity, t))
            EXCEPT !.wmSaved = TRUE]
  ELSE Saves("relation",
             [graph EXCEPT !.relations =
                Append(@, newRelation(sourceEntity, targetEntity, relationType,
                                      metadata, t))],
             updateEntityAccess(updateEntityAccess(wm, sourceEntity, t), targetEntity, t),
             TRUE)

(* Variant: createRelation without the check that the two entities exist. *)
createRelationUnverified(graph, wm, sourceEntity, targetEntity, relationType, metadata, t) ==
  IF findRelationIndex(graph.relations, sourceEntity, targetEntity, relationType) # 0
    THEN Ends("throw:exists", wm)
  ELSE Saves("relation",
             [graph EXCEPT !.relations =
                Append(@, newRelation(sourceEntity, targetEntity, relationType,
                                      metadata, t))],
             updateEntityAccess(updateEntityAccess(wm, sourceEntity, t), targetEntity, t),
             TRUE)

createRelationOutcome(graph, wm, sourceEntity, targetEntity, relationType, metadata, t) ==
  IF ~someEntity(graph.entities, sourceEntity) THEN Ends("throw:source", wm)
  ELSE IF ~someEntity(graph.entities, targetEntity) THEN Ends("throw:target", wm)
  ELSE IF findRelationIndex(graph.relations, sourceEntity, targetEntity,
                            relationType) # 0
    THEN Ends("throw:exists", wm)
  ELSE Saves("relation",
             [graph EXCEPT !.relations =
                Append(@, newRelation(sourceEntity, targetEntity, relationType,
                                      metadata, t))],
             updateEntityAccess(updateEntityAccess(wm, sourceEntity, t), targetEntity, t),
             TRUE)

deleteRelationOutcome(graph, wm, sourceEntity, targetEntity, relationType) ==
  LET relationIndex == findRelationIndex(graph.relations, sourceEntity, targetEntity,
                                         relationType)
  IN IF relationIndex = 0 THEN Ends("false", wm)
     ELSE Saves("true", [graph EXCEPT !.relations = removeAt(@, relationIndex)], wm, FALSE)

Metadata(relation) ==
  IF Defined(relation, "metadata") THEN Get(relation, "metadata") ELSE <<>>

applyRelationUpdates(relation, updates) ==
  LET r1 == IF Defined(updates, "confidence")
              THEN Set(relation, "metadata",
                       Set(Metadata(relation), "confidence", Get(updates, "confidence")))
              ELSE relation
  IN IF Defined(updates, "notes")
       THEN Set(r1, "metadata", Set(Metadata(r1), "notes", Get(updates, "notes")))
       ELSE r1

updateRelationOutcome(graph, wm, sourceEntity, targetEntity, relationType, updates) ==
  LET relationIndex == findRelationIndex(graph.relations, sourceEntity, targetEntity,
                                         relationType)
  IN IF relationIndex = 0 THEN Ends("null", wm)
     ELSE Saves("relation",
                [graph EXCEPT !.relations[relationIndex] =
                   applyRelationUpdates(@, updates)],
                wm, FALSE)

(***************************************************************************)
(* The calls as steps of the engine.  history records the calls made so    *)
(* far: the operation, its arguments and how it ended.                     *)
(***************************************************************************)
NoCall == [op |-> "none", entityName |-> NoArg, other |-> NoArg,
           relationType |-> NoArg, outcome |-> "none"]

calls == Len(history)

lastCall == IF history = <<>> THEN NoCall ELSE history[Len(history)]

Respond(op, a, b, c, outcome) ==
  history' = Append(history, [op |-> op, entityName |-> a, other |-> b,
                              relationType |-> c, outcome |-> outcome])

Perform(op, a, b, c, out) ==
  IF loadFails(memoryFile)
    THEN /\ Respond(op, a, b, c, "throw:load")
         /\ UNCHANGED <<memoryFile, workingMemory, workingMemoryFile, now, pending>>
    ELSE /\ memoryFile' = IF out.save THEN saveGraph(out.graph) ELSE memoryFile
         /\ workingMemory' = out.wm
         /\ workingMemoryFile' = IF out.wmSaved THEN writeWorkingMemory(out.wm)
                                 ELSE workingMemoryFile
         /\ Respond(op, a, b, c, out.outcome)
         /\ UNCHANGED <<now, pending>>

ReadGraph(fullDetails) ==
  /\ Respond("readGraph", NoArg, NoArg, NoArg,
             IF loadFails(memoryFile) THEN "throw:load" ELSE "summary")
  /\ UNCHANGED <<memoryFile, workingMemory, workingMemoryFile, now, pending>>

getEntity(entityName) ==
  Perform("getEntity", entityName, NoArg, NoArg,
          getEntityOutcome(loadGraph(memoryFile), workingMemory, entityName, now))

createEntity(entityName, entityType, observations, projectId, parentEntity, tags) ==
  Perform("createEntity", entityName, parentEntity, NoArg,
          createEntityOutcome(loadGraph(memoryFile), workingMemory, entityName,
                              entityType, observations, projectId, parentEntity,
                              tags, now))

NewParent(updates) ==
  IF Defined(updates, "parentEntity") THEN Get(updates, "parentEntity") ELSE NoArg

updateEntity(entityName, updates) ==
  Perform("updateEntity", entityName, NewParent(updates), NoArg,
          updateEntityOutcome(loadGraph(memoryFile), workingMemory, entityName,
                              updates, now))

deprecateEntity(entityName) ==
  Perform("deprecateEntity", entityName, NoArg, NoArg,
          deprecateEntityOutcome(loadGraph(memoryFile), workingMemory, entityName, now))

deleteEntity(entityName) ==
  Perform("deleteEntity", entityName, NoArg, NoArg,
          deleteEntityOutcome(loadGraph(memoryFile), workingMemory, entityName, now))

createRelation(sourceEntity, targetEntity, relationType, metadata) ==
  Perform("createRelation", sourceEntity, targetEntity, relationType,
          createRelationOutcome(loadGraph(memoryFile), workingMemory, sourceEntity,
                                targetEntity, relationType, metadata, now))

deleteRelation(sourceEntity, targetEntity, relationType) ==
  Perform("deleteRelation", sourceEntity, targetEntity, relationType,
          deleteRelationOutcome(loadGraph(memoryFile), workingMemory, sourceEntity,
                                targetEntity, relationType))

updateRelation(sourceEntity, targetEntity, relationType, updates) ==
  Perform("updateRelation", sourceEntity, targetEntity, relationType,
          updateRelationOutcome(loadGraph(memoryFile), workingMemory, sourceEntity,
                                targetEntity, relationType, updates))

(***************************************************************************)
(* Spec: the engine driven by any sequence of at most MaxCalls calls, from *)
(* an absent graph file and the default working memory.  A call that       *)
(* threw, found nothing or only read left the files and the working        *)
(* memory as they were, so the calls after it are the calls that were      *)
(* possible before it: behaviours are followed up to such a call.          *)
(***************************************************************************)
Init ==
  /\ memoryFile = [exists |-> FALSE, lines |-> <<>>]
  /\ workingMemory = DefaultWorkingMemory(0)
  /\ workingMemoryFile = [exists |-> FALSE, content |-> DefaultWorkingMemory(0)]
  /\ now = 0
  /\ history = <<>>
  /\ pending = <<>>

Effective(call) == call.outcome \in {"none", "entity", "relation", "true"}

Within(max) == calls < max /\ Effective(lastCall)

ParentInputs == Names \cup {NoName}

Next ==
  \/ \E n \in Names, p \in Names \cup {NoArg} :
       Within(MaxCalls) /\ createEntity(n, "Person", <<"o1", "o2">>, NoArg, p, <<>>)
  \/ \E n \in Names : Within(MaxCalls) /\ getEntity(n)
  \/ \E n \in Names, p \in ParentInputs :
       Within(MaxCalls) /\ updateEntity(n, << <<"parentEntity", p>> >>)
  \/ \E n \in Names : Within(MaxCalls) /\ deprecateEntity(n)
  \/ \E n \in Names : Within(MaxCalls) /\ deleteEntity(n)
  \/ \E a \in Names, b \in Names, t \in RelationTypes :
       Within(MaxCalls) /\ createRelation(a, b, t, <<>>)
  \/ \E a \in Names, b \in Names, t \in RelationTypes :
       Within(MaxCalls) /\ deleteRelation(a, b, t)
  \/ \E a \in Names, b \in Names, t \in RelationTypes :
       Within(MaxCalls) /\ updateRelation(a, b, t, << <<"confidence", 5>> >>)
  \/ \E fullDetails \in BOOLEAN : Within(MaxCalls) /\ ReadGraph(fullDetails)

Spec == Init /\ [][Next]_vars

(***************************************************************************)
(* SpecHierarchy: the operations that make and unmake parent/child links,  *)
(* up to MaxHierarchyCalls calls.                                          *)
(***************************************************************************)
NextHierarchy ==
  \/ \E n \in Names, p \in Names \cup {NoArg} :
       Within(MaxHierarchyCalls) /\ createEntity(n, "Person", <<"o1">>, NoArg, p, <<>>)
  \/ \E n \in Names, p \in ParentInputs :
       Within(MaxHierarchyCalls) /\ updateEntity(n, << <<"parentEntity", p>> >>)
  \/ \E n \in Names : Within(MaxHierarchyCalls) /\ deleteEntity(n)

SpecHierarchy == Init /\ [][NextHierarchy]_vars

(***************************************************************************)
(* SpecCascade: entities without parents, relations among them, and        *)
(* deleteEntity, up to MaxCascadeCalls calls.                              *)
(***************************************************************************)
CascadeNames == {"A", "B"}

NextCascade ==
  \/ \E n \in CascadeNames :
       Within(MaxCascadeCalls) /\ createEntity(n, "Person", <<"o1">>, NoArg, NoArg, <<>>)
  \/ \E a \in CascadeNames, b \in CascadeNames, t \in RelationTypes :
       Within(MaxCascadeCalls) /\ createRelation(a, b, t, <<>>)
  \/ \E n \in CascadeNames : Within(MaxCascadeCalls) /\ deleteEntity(n)

SpecCascade == Init /\ [][NextCascade]_vars

(***************************************************************************)
(* SpecRelations: the operations on relations, with the entities they      *)
(* need made and deleted, up to MaxRelationCalls calls.                    *)
(***************************************************************************)
NextRelations ==
  \/ \E n \in CascadeNames :
       Within(MaxRelationCalls) /\ createEntity(n, "Person", <<"o1">>, NoArg, NoArg, <<>>)
  \/ \E a \in CascadeNames, b \in CascadeNames, t \in RelationTypes :
       Within(MaxRelationCalls) /\ createRelation(a, b, t, <<>>)
  \/ \E a \in CascadeNames, b \in CascadeNames, t \in RelationTypes :
       Within(MaxRelationCalls) /\ updateRelation(a, b, t, << <<"confidence", 5>> >>)
  \/ \E a \in CascadeNames, b \in CascadeNames, t \in RelationTypes :
       Within(MaxRelationCalls) /\ deleteRelation(a, b, t)
  \/ \E n \in CascadeNames : Within(MaxRelationCalls) /\ deleteEntity(n)

SpecRelations == Init /\ [][NextRelations]_vars

(***************************************************************************)
(* SpecRoundTrip: loadGraph followed by saveGraph with nothing changed in  *)
(* between, applied repeatedly to a graph file of at most MaxLines lines   *)
(* written by the engine or by anyone else.                                *)
(***************************************************************************)
PersonA == newEntity("A", "Person", <<"o1">>, NoArg, NoArg, <<>>, 0)

PersonB == newEntity("B", "Person", <<>>, "P", "A", <<"t">>, 0)

Foreign(o, shadowed) ==
  [form |-> "json", sp |-> TRUE, shadowed |-> shadowed, kv |-> DropUndefined(o)]

LinePool ==
  { entityLine(PersonA),
    Foreign(Append(PersonB, <<"type", "entity">>), <<>>),
    Foreign(PersonA, << <<"name", "Z">> >>),
    relationLine(newRelation("A", "B", "knows", <<>>, 0)),
    Foreign(Append(newRelation("B", "A", "uses", <<>>, 0), <<"type", "relation">>), <<>>),
    Foreign(<< <<"type", "note">>, <<"text", "x">> >>, <<>>),
    Foreign(<< <<"name", "A">> >>, <<>>),
    BlankLine,
    [form |-> "garbage", sp |-> FALSE, shadowed |-> <<>>, kv |-> <<>>] }

GraphTexts ==
  (UNION {[1..n -> LinePool] : n \in 0..MaxLines}) \ {<<BlankLine>>}

InitRoundTrip ==
  /\ memoryFile \in {[exists |-> FALSE, lines |-> <<>>]}
                      \cup {[exists |-> TRUE, lines |-> text] : text \in GraphTexts}
  /\ workingMemory = DefaultWorkingMemory(0)
  /\ workingMemoryFile = [exists |-> FALSE, content |-> DefaultWorkingMemory(0)]
  /\ now = 0
  /\ history = <<>>
  /\ pending = <<>>

RoundTrip ==
  /\ calls < MaxRoundTrips
  /\ IF loadFails(memoryFile)
       THEN Respond("roundTrip", NoArg, NoArg, NoArg, "throw:load")
            /\ UNCHANGED memoryFile
       ELSE Respond("roundTrip", NoArg, NoArg, NoArg, "saved")
            /\ memoryFile' = saveGraph(loadGraph(memoryFile))
  /\ UNCHANGED <<workingMemory, workingMemoryFile, now, pending>>

SpecRoundTrip == InitRoundTrip /\ [][RoundTrip]_vars

(***************************************************************************)
(* SpecLoad: operations on a graph file of at most MaxLines lines written  *)
(* by the engine or by anyone else, or on no file, up to MaxLoadCalls      *)
(* calls.                                                                  *)
(***************************************************************************)
NextLoad ==
  \/ \E n \in {"A", "C"} :
       Within(MaxLoadCalls) /\ createEntity(n, "Person", <<"o1">>, NoArg, NoArg, <<>>)
  \/ \E n \in {"A", "C"} : Within(MaxLoadCalls) /\ getEntity(n)
  \/ \E n \in {"A", "C"} : Within(MaxLoadCalls) /\ deleteEntity(n)
  \/ \E t \in RelationTypes : Within(MaxLoadCalls) /\ createRelation("A", "B", t, <<>>)
  \/ \E fullDetails \in BOOLEAN : Within(MaxLoadCalls) /\ ReadGraph(fullDetails)

SpecLoad == InitRoundTrip /\ [][NextLoad]_vars

(***************************************************************************)
(* SpecRace: calls of createEntity and updateEntity in flight together.    *)
(* A call is suspended at `await this.loadGraph()`; what follows the load  *)
(* (the checks, the changes to the loaded copy, the text handed to         *)
(* fs.writeFile and the working-memory touch) runs when it is resumed.     *)
(* pending holds the calls in flight, each with the graph it loaded and    *)
(* the number of calls that had returned when it loaded.                   *)
(***************************************************************************)
Call(op, entityName, other) ==
  /\ calls + Len(pending) < MaxRaceCalls
  /\ pending' = Append(pending, [op |-> op, entityName |-> entityName, other |-> other,
                                 loaded |-> FALSE, graph |-> EmptyGraph, loadedAt |-> 0])
  /\ UNCHANGED <<memoryFile, workingMemory, workingMemoryFile, now, history>>

AwaitLoad(i) ==
  /\ ~pending[i].loaded
  /\ ~loadFails(memoryFile)
  /\ pending' = [pending EXCEPT ![i].loaded = TRUE, ![i].graph = loadGraph(memoryFile),
                                ![i].loadedAt = calls]
  /\ UNCHANGED <<memoryFile, workingMemory, workingMemoryFile, now, history>>

(* Variant: a call working on the graph file as it is when the call resumes. *)
reloadedGraph(call) == loadGraph(memoryFile)

loadedGraph(call) == call.graph

Outcome(call, wm, t) ==
  IF call.op = "createEntity"
    THEN createEntityOutcome(loadedGraph(call), wm, call.entityName, "Person", <<"o1">>,
                             NoArg, call.other, <<>>, t)
  ELSE IF call.op = "getEntity"
    THEN getEntityOutcome(loadedGraph(call), wm, call.entityName, t)
  ELSE IF call.op = "deleteEntity"
    THEN deleteEntityOutcome(loadedGraph(call), wm, call.entityName, t)
    ELSE updateEntityOutcome(loadedGraph(call), wm, call.entityName,
                             << <<"parentEntity", call.other>> >>, t)

Resume(i) ==
  LET call == pending[i]
      out == Outcome(call, workingMemory, now)
  IN /\ call.loaded
     /\ memoryFile' = IF out.save THEN saveGraph(out.graph) ELSE memoryFile
     /\ workingMemory' = out.wm
     /\ workingMemoryFile' = IF out.wmSaved THEN writeWorkingMemory(out.wm)
                             ELSE workingMemoryFile
     /\ Respond(call.op, call.entityName, call.other, NoArg, out.outcome)
     /\ pending' = removeAt(pending, i)
     /\ UNCHANGED now

NextRace ==
  \/ \E n \in CascadeNames : Call("createEntity", n, NoArg)
  \/ \E n \in CascadeNames, p \in CascadeNames : Call("updateEntity", n, p)
  \/ \E i \in 1..Len(pending) : AwaitLoad(i)
  \/ \E i \in 1..Len(pending) : Resume(i)

SpecRace == Init /\ [][NextRace]_vars

(***************************************************************************)
(* SpecLookup: calls of getEntity (the lookups that open_nodes starts      *)
(* together) and of deleteEntity in flight with each other, suspended and  *)
(* resumed as in SpecRace, on entities created while no call is in flight. *)
(***************************************************************************)
NextLookup ==
  \/ \E n \in CascadeNames :
       /\ pending = <<>>
       /\ calls < MaxRaceCalls
       /\ createEntity(n, "Person", <<"o1">>, NoArg, NoArg, <<>>)
  \/ \E n \in CascadeNames : Call("getEntity", n, NoArg)
  \/ \E n \in CascadeNames : Call("deleteEntity", n, NoArg)
  \/ \E i \in 1..Len(pending) : AwaitLoad(i)
  \/ \E i \in 1..Len(pending) : Resume(i)

SpecLookup == Init /\ [][NextLookup]_vars

(***************************************************************************)
(* SpecSearch: SearchManager.hierarchicalSearch on the hierarchies that    *)
(* up to MaxSearchCalls calls of createEntity and updateEntity build.      *)
(* The search is a recursion of traverseChildren, suspended at each        *)
(* getEntity; pending holds the search in flight: its frames (innermost    *)
(* last) and its results.  A frame is pushed only while fewer than         *)
(* MaxSearchDepth frames are open.                                         *)
(***************************************************************************)
Unlimited == -1

Frame(entityName, currentDepth) ==
  [entityName |-> entityName, entered |-> FALSE, children |-> <<>>, next |-> 1,
   currentDepth |-> currentDepth]

Touched(entityName) ==
  getEntityOutcome(loadGraph(memoryFile), workingMemory, entityName, now)

Found(entityName) == loadGraph(memoryFile).entities[findIndex(loadGraph(memoryFile).entities, entityName)]

TouchBy(out) ==
  /\ workingMemory' = out.wm
  /\ workingMemoryFile' = IF out.wmSaved THEN writeWorkingMemory(out.wm)
                          ELSE workingMemoryFile

Results(rootEntityName, maxDepth, includeRoot, results) ==
  [op |-> "hierarchicalSearch", entityName |-> rootEntityName, other |-> NoArg,
   relationType |-> NoArg, outcome |-> "results", maxDepth |-> maxDepth,
   includeRoot |-> includeRoot, returned |-> results]

(* Variant: the traversal stops one level early. *)
pastMaxDepthInclusive(maxDepth, currentDepth) == maxDepth >= 0 /\ currentDepth >= maxDepth

pastMaxDepth(maxDepth, currentDepth) == maxDepth >= 0 /\ currentDepth > maxDepth

hierarchicalSearch(rootEntityName, maxDepth, includeRoot) ==
  LET rootEntity == Touched(rootEntityName)
  IN /\ pending = <<>>
     /\ Effective(lastCall)
     /\ ~loadFails(memoryFile)
     /\ TouchBy(rootEntity)
     /\ IF rootEntity.outcome = "null"
          THEN /\ history' = Append(history, Results(rootEntityName, maxDepth,
                                                     includeRoot, <<>>))
               /\ UNCHANGED pending
          ELSE /\ pending' = <<[op |-> "hierarchicalSearch", entityName |-> rootEntityName,
                                maxDepth |-> maxDepth, includeRoot |-> includeRoot,
                                frames |-> <<Frame(rootEntityName, 1)>>,
                                results |-> IF includeRoot THEN <<rootEntityName>>
                                            ELSE <<>>]>>
               /\ UNCHANGED history
     /\ UNCHANGED <<memoryFile, now>>

Return(search, frames) ==
  IF frames = <<>>
    THEN /\ history' = Append(history, Results(search.entityName, search.maxDepth,
                                               search.includeRoot, search.results))
         /\ pending' = <<>>
    ELSE /\ pending' = <<[search EXCEPT !.frames = frames]>>
         /\ UNCHANGED history

traverseChildren ==
  /\ pending # <<>>
  /\ pending[1].op = "hierarchicalSearch"
  /\ LET search == pending[1]
         depth == Len(search.frames)
         frame == search.frames[depth]
         outer == SubSeq(search.frames, 1, depth - 1)
     IN IF ~frame.entered
          THEN IF pastMaxDepth(search.maxDepth, frame.currentDepth)
                 THEN /\ Return(search, outer)
                      /\ UNCHANGED <<workingMemory, workingMemoryFile>>
                 ELSE /\ TouchBy(Touched(frame.entityName))
                      /\ IF Touched(frame.entityName).outcome = "null"
                            \/ Children(Found(frame.entityName)) = <<>>
                           THEN Return(search, outer)
                           ELSE /\ pending' = <<[search EXCEPT
                                      !.frames[depth].entered = TRUE,
                                      !.frames[depth].children =
                                         Children(Found(frame.entityName))]>>
                                /\ UNCHANGED history
          ELSE IF frame.next > Len(frame.children)
                 THEN /\ Return(search, outer)
                      /\ UNCHANGED <<workingMemory, workingMemoryFile>>
                 ELSE LET childName == frame.children[frame.next]
                      IN /\ TouchBy(Touched(childName))
                         /\ UNCHANGED history
                         /\ IF Touched(childName).outcome = "null"
                              THEN pending' = <<[search EXCEPT
                                                   !.frames[depth].next = @ + 1]>>
                              ELSE /\ depth < MaxSearchDepth
                                   /\ pending' = <<[search EXCEPT
                                          !.frames = Append([@ EXCEPT ![depth].next = @ + 1],
                                                            Frame(childName,
                                                                  frame.currentDepth + 1)),
                                          !.results = Append(@, childName)]>>
  /\ UNCHANGED <<memoryFile, now>>

NextSearch ==
  \/ \E n \in CascadeNames, p \in CascadeNames \cup {NoArg} :
       /\ pending = <<>>
       /\ Within(MaxSearchCalls)
       /\ createEntity(n, "Person", <<"o1">>, NoArg, p, <<>>)
  \/ \E n \in CascadeNames, p \in CascadeNames :
       /\ pending = <<>>
       /\ Within(MaxSearchCalls)
       /\ updateEntity(n, << <<"parentEntity", p>> >>)
  \/ \E rootEntityName \in CascadeNames, maxDepth \in {Unlimited, 1},
        includeRoot \in BOOLEAN :
       hierarchicalSearch(rootEntityName, maxDepth, includeRoot)
  \/ traverseChildren

SpecSearch == Init /\ [][NextSearch]_vars

(***************************************************************************)
(* SpecWorkingMemory: a store in which the entities of Seed were created   *)
(* in order, so that recentlyDiscussed is full, followed by up to          *)
(* MaxWorkingMemoryCalls further calls.                                    *)
(***************************************************************************)
Seed == <<"E01", "E02", "E03", "E04", "E05", "E06", "E07", "E08", "E09", "E10">>

Late == {"E11", "E12"}

RECURSIVE Seeded(_)
Seeded(k) ==
  IF k = 0
    THEN [graph |-> EmptyGraph, wm |-> DefaultWorkingMemory(0), history |-> <<>>]
    ELSE LET before == Seeded(k - 1)
             out == createEntityOutcome(before.graph, before.wm, Seed[k], "Person",
                                        <<"o1">>, NoArg, NoArg, <<>>, 0)
         IN [graph |-> out.graph, wm |-> out.wm,
             history |-> Append(before.history,
                                [op |-> "createEntity", entityName |-> Seed[k],
                                 other |-> NoArg, relationType |-> NoArg,
                                 outcome |-> out.outcome])]

InitWorkingMemory ==
  /\ memoryFile = saveGraph(Seeded(Len(Seed)).graph)
  /\ workingMemory = Seeded(Len(Seed)).wm
  /\ workingMemoryFile = writeWorkingMemory(Seeded(Len(Seed)).wm)
  /\ now = 0
  /\ history = Seeded(Len(Seed)).history
  /\ pending = <<>>

NextWorkingMemory ==
  \/ \E n \in Late :
       /\ Within(Len(Seed) + MaxWorkingMemoryCalls)
       /\ createEntity(n, "Person", <<"o1">>, NoArg, NoArg, <<>>)
  \/ \E n \in {"E01", "E10"} \cup Late :
       Within(Len(Seed) + MaxWorkingMemoryCalls) /\ getEntity(n)
  \/ \E n \in {"E01", "E02", "E11"} :
       Within(Len(Seed) + MaxWorkingMemoryCalls) /\ deleteEntity(n)

SpecWorkingMemory == InitWorkingMemory /\ [][NextWorkingMemory]_vars

(***************************************************************************)
(* getRelations.  The relations it returns are kept in the record of the   *)
(* call, as returned.                                                      *)
(***************************************************************************)
(* Variant: the filter on relationType is left out. *)
relationsAtAnyType(relations, end, entityName, relationType) ==
  SelectSeq(relations, LAMBDA relation : Get(relation, end) = entityName)

relationsAt(relations, end, entityName, relationType) ==
  SelectSeq(relations, LAMBDA relation :
    /\ Get(relation, end) = entityName
    /\ (~Truthy(relationType) \/ Get(relation, "relationType") = relationType))

getRelationsResult(graph, entityName, direction, relationType) ==
  LET dir == IF Truthy(direction) THEN direction ELSE "both"
      outgoing == IF dir \in {"outgoing", "both"}
                    THEN relationsAt(graph.relations, "from", entityName, relationType)
                    ELSE <<>>
      incoming == IF dir \in {"incoming", "both"}
                    THEN relationsAt(graph.relations, "to", entityName, relationType)
                    ELSE <<>>
  IN outgoing \o incoming

getRelations(entityName, direction, relationType) ==
  LET relations == getRelationsResult(loadGraph(memoryFile), entityName, direction,
                                      relationType)
      wm == updateEntityAccess(workingMemory, entityName, now)
  IN IF loadFails(memoryFile)
       THEN /\ Respond("getRelations", entityName, direction, relationType, "throw:load")
            /\ UNCHANGED <<memoryFile, workingMemory, workingMemoryFile, now, pending>>
       ELSE /\ history' = Append(history,
                            [op |-> "getRelations", entityName |-> entityName,
                             other |-> direction, relationType |-> relationType,
                             outcome |-> "relations", returned |-> relations])
            /\ workingMemory' = IF relations # <<>> THEN wm ELSE workingMemory
            /\ workingMemoryFile' = IF relations # <<>> THEN writeWorkingMemory(wm)
                                    ELSE workingMemoryFile
            /\ UNCHANGED <<memoryFile, now, pending>>

Directions == {"incoming", "outgoing", NoArg}

NextQuery ==
  \/ \E n \in CascadeNames :
       Within(MaxQueryCalls) /\ createEntity(n, "Person", <<"o1">>, NoArg, NoArg, <<>>)
  \/ \E a \in CascadeNames, b \in CascadeNames, t \in RelationTypes :
       Within(MaxQueryCalls) /\ createRelation(a, b, t, <<>>)
  \/ \E n \in CascadeNames : Within(MaxQueryCalls) /\ deleteEntity(n)
  \/ \E n \in CascadeNames : Within(MaxQueryCalls) /\ getEntity(n)
  \/ \E n \in CascadeNames, d \in Directions, t \in RelationTypes \cup {NoArg} :
       Within(MaxQueryCalls) /\ getRelations(n, d, t)

SpecQuery == Init /\ [][NextQuery]_vars

(***************************************************************************)
(* SpecStale: MemoryHealthManager.findStaleEntities.  Time is counted in   *)
(* days and passes by Tick, up to MaxDays; timestamps compare as the ISO   *)
(* strings of the code do.  The names the call returns are kept in its     *)
(* record, as returned.                                                    *)
(***************************************************************************)
getDateDaysAgo(days, t) == t - days

RECURSIVE getEntities(_, _, _)
getEntities(wm, names, t) ==
  IF names = <<>> THEN wm
  ELSE getEntities(updateEntityAccess(wm, Head(names), t), Tail(names), t)

(* Variant: an entity last accessed at the cutoff counts as stale. *)
staleEntitiesInclusive(graph, thresholdDays, projectId, t) ==
  LET filteredEntities == IF Truthy(projectId)
                            THEN SelectSeq(graph.entities, LAMBDA entity :
                                   Defined(entity, "projectId")
                                     /\ Get(entity, "projectId") = projectId)
                            ELSE graph.entities
      staleDate == getDateDaysAgo(thresholdDays, t)
  IN SelectSeq(filteredEntities, LAMBDA entity :
       Defined(entity, "lastAccessed") /\ Get(entity, "lastAccessed") <= staleDate)

staleEntities(graph, thresholdDays, projectId, t) ==
  LET filteredEntities == IF Truthy(projectId)
                            THEN SelectSeq(graph.entities, LAMBDA entity :
                                   Defined(entity, "projectId")
                                     /\ Get(entity, "projectId") = projectId)
                            ELSE graph.entities
      staleDate == getDateDaysAgo(thresholdDays, t)
  IN SelectSeq(filteredEntities, LAMBDA entity :
       Defined(entity, "lastAccessed") /\ Get(entity, "lastAccessed") < staleDate)

findStaleEntities(thresholdDays, projectId) ==
  LET graph == loadGraph(memoryFile)
      stale == staleEntities(graph, thresholdDays, projectId, now)
      filtered == IF Truthy(projectId)
                    THEN SelectSeq(graph.entities, LAMBDA entity :
                           Defined(entity, "projectId")
                             /\ Get(entity, "projectId") = projectId)
                    ELSE graph.entities
      wm == getEntities(workingMemory,
                        [i \in 1..Len(filtered) |-> Get(filtered[i], "name")], now)
  IN IF loadFails(memoryFile)
       THEN /\ Respond("findStaleEntities", NoArg, thresholdDays, NoArg, "throw:load")
            /\ UNCHANGED <<memoryFile, workingMemory, workingMemoryFile, now, pending>>
       ELSE /\ history' = Append(history,
                            [op |-> "findStaleEntities", entityName |-> NoArg,
                             other |-> thresholdDays, relationType |-> NoArg,
                             projectId |-> projectId, outcome |-> "stale",
                             returned |-> [i \in 1..Len(stale) |-> Get(stale[i], "name")]])
            /\ workingMemory' = wm
            /\ workingMemoryFile' = IF filtered # <<>> THEN writeWorkingMemory(wm)
                                    ELSE workingMemoryFile
            /\ UNCHANGED <<memoryFile, now, pending>>

Tick ==
  /\ now < MaxDays
  /\ Effective(lastCall)
  /\ now' = now + 1
  /\ UNCHANGED <<memoryFile, workingMemory, workingMemoryFile, history, pending>>

Thresholds == {1, 2}

NextStale ==
  \/ \E n \in CascadeNames :
       Within(MaxStaleCalls) /\ createEntity(n, "Person", <<"o1">>, NoArg, NoArg, <<>>)
  \/ \E n \in CascadeNames : Within(MaxStaleCalls) /\ getEntity(n)
  \/ \E n \in CascadeNames :
       Within(MaxStaleCalls) /\ updateEntity(n, << <<"observations", <<"o2">> >> >>)
  \/ \E thresholdDays \in Thresholds :
       Within(MaxStaleCalls) /\ findStaleEntities(thresholdDays, NoArg)
  \/ Tick

SpecStale == Init /\ [][NextStale]_vars

(***************************************************************************)
(* SpecStaleProjects: findStaleEntities with and without a project, on     *)
(* entities made in a project or in none.                                  *)
(***************************************************************************)
ProjectIds == {NoArg, "P1"}

NextStaleProjects ==
  \/ \E n \in CascadeNames, projectId \in ProjectIds :
       Within(MaxStaleCalls) /\ createEntity(n, "Person", <<"o1">>, projectId, NoArg, <<>>)
  \/ \E n \in CascadeNames : Within(MaxStaleCalls) /\ getEntity(n)
  \/ \E thresholdDays \in Thresholds, projectId \in ProjectIds :
       Within(MaxStaleCalls) /\ findStaleEntities(thresholdDays, projectId)
  \/ Tick

SpecStaleProjects == Init /\ [][NextStaleProjects]_vars

(***************************************************************************)
(* The persisted graph, and the step taken by a call.                      *)
(***************************************************************************)
Persisted == loadGraph(memoryFile)

EntityNamed(graph, name) == graph.entities[findIndex(graph.entities, name)]

Existing(graph, name) == someEntity(graph.entities, name)

Called(op) == calls' = calls + 1 /\ lastCall'.op = op

Returned(outcome) == lastCall'.outcome = outcome

Did(op, outcome) == lastCall.op = op /\ lastCall.outcome = outcome

Made(op, entityName, other, outcome) ==
  \E i \in 1..Len(history) :
    /\ history[i].op = op
    /\ history[i].entityName = entityName
    /\ history[i].other = other
    /\ history[i].outcome = outcome

GraphUnchanged == memoryFile' = memoryFile

WorkingMemoryUnchanged == workingMemory' = workingMemory

(***************************************************************************)
(* C1.  After any sequence of graph-engine calls from an empty graph file, *)
(* the persisted graph holds at most one entity of any name.               *)
(***************************************************************************)
C1_UniqueEntityNames ==
  LET entities == Persisted.entities
  IN \A i \in 1..Len(entities) : \A j \in 1..Len(entities) :
       Get(entities[i], "name") = Get(entities[j], "name") => i = j

C1_Witness ==
  /\ Did("createEntity", "throw:exists")
  /\ Len(Persisted.entities) >= 2

(***************************************************************************)
(* C2.  createEntity with a name that exists throws the conflict error and *)
(* leaves the graph file as it was: no entity, no relation and no          *)
(* children list differs.                                                  *)
(***************************************************************************)
C2_DuplicateCreateChangesNothing ==
  [][(Called("createEntity") /\ Existing(Persisted, lastCall'.entityName))
       => (Returned("throw:exists") /\ GraphUnchanged)]_vars

C2_Witness ==
  /\ Did("createEntity", "throw:exists")
  /\ Existing(Persisted, lastCall.other)
  /\ Children(EntityNamed(Persisted, lastCall.other)) # <<>>

(***************************************************************************)
(* C3.  After any sequence of graph-engine calls from an empty graph file, *)
(* the persisted graph holds at most one relation of any (from, to,        *)
(* relationType).                                                          *)
(***************************************************************************)
C3_UniqueRelationTriples ==
  LET relations == Persisted.relations
  IN \A i \in 1..Len(relations) : \A j \in 1..Len(relations) :
       isTriple(relations[i], Get(relations[j], "from"), Get(relations[j], "to"),
                Get(relations[j], "relationType")) => i = j

C3_Witness ==
  /\ Did("createRelation", "throw:exists")
  /\ Len(Persisted.relations) >= 2

(***************************************************************************)
(* C4.  deleteEntity(E) of an existing E removes from the persisted graph  *)
(* exactly the relations whose from or to is E: the relations left are the *)
(* others, unmodified and in the order they had.                           *)
(***************************************************************************)
Mentions(relation, entityName) ==
  Get(relation, "from") = entityName \/ Get(relation, "to") = entityName

Others(relations, entityName) ==
  {i \in 1..Len(relations) : ~Mentions(relations[i], entityName)}

NthOf(indices, n) == CHOOSE i \in indices : Cardinality({j \in indices : j <= i}) = n

C4_DeleteCascadesExactly ==
  [][(Called("deleteEntity") /\ Existing(Persisted, lastCall'.entityName))
       => LET before == Persisted.relations
              after == Persisted'.relations
              kept == Others(before, lastCall'.entityName)
          IN /\ Returned("true")
             /\ Len(after) = Cardinality(kept)
             /\ \A n \in 1..Len(after) : after[n] = before[NthOf(kept, n)]]_vars

C4_Witness ==
  /\ Did("deleteEntity", "true")
  /\ Len(Persisted.relations) >= 2
  /\ \E i \in 1..Len(history) :
       /\ history[i].op = "createRelation"
       /\ history[i].outcome = "relation"
       /\ lastCall.entityName \in {history[i].entityName, history[i].other}
       /\ \A j \in (i + 1)..(Len(history) - 1) : history[j].op # "deleteEntity"

(***************************************************************************)
(* C5.  After any sequence of createEntity, updateEntity and deleteEntity  *)
(* calls from an empty graph, every entity A with a parentEntity B (a      *)
(* name: the empty string is how updateEntity clears the parent) has an    *)
(* existing entity B whose children contain A.                             *)
(***************************************************************************)
C5_ParentChildSymmetry ==
  LET graph == Persisted
  IN \A i \in 1..Len(graph.entities) :
       LET A == graph.entities[i]
       IN StrTruthy(A, "parentEntity")
            => /\ Existing(graph, Get(A, "parentEntity"))
               /\ Includes(Children(EntityNamed(graph, Get(A, "parentEntity"))),
                           Get(A, "name"))

C5_Witness ==
  \E a \in Names, b \in Names, c \in Names :
    /\ a # b /\ b # c /\ a # c
    /\ Made("createEntity", a, b, "entity")
    /\ Did("updateEntity", "entity")
    /\ lastCall.entityName = a
    /\ lastCall.other = c
    /\ Existing(Persisted, b)
    /\ Get(EntityNamed(Persisted, a), "parentEntity") = c

OnEntity == {"getEntity", "updateEntity", "deleteEntity"}

OnRelation == {"deleteRelation", "updateRelation"}

NotFound(op) == IF op \in {"deleteEntity", "deleteRelation"} THEN "false" ELSE "null"

TargetMissing(call) ==
  \/ call.op \in OnEntity /\ ~Existing(Persisted, call.entityName)
  \/ /\ call.op \in OnRelation
     /\ findRelationIndex(Persisted.relations, call.entityName, call.other,
                          call.relationType) = 0

C7_NotFoundIsSilent ==
  [][(calls' = calls + 1 /\ TargetMissing(lastCall'))
       => /\ Returned(NotFound(lastCall'.op))
          /\ GraphUnchanged
          /\ WorkingMemoryUnchanged]_vars

C7_Witness ==
  /\ Did("getEntity", "null")
  /\ Len(Persisted.entities) >= 2
  /\ workingMemory.recentlyDiscussed # <<>>

(***************************************************************************)
(* C8.  createRelation throws when the source entity is missing, when the  *)
(* target entity is missing, or when the same (from, to, relationType)     *)
(* exists; the persisted graph and working memory are then unchanged.      *)
(***************************************************************************)
RelationRefused(call) ==
  \/ ~Existing(Persisted, call.entityName)
  \/ ~Existing(Persisted, call.other)
  \/ findRelationIndex(Persisted.relations, call.entityName, call.other,
                       call.relationType) # 0

C8_RefusedRelationChangesNothing ==
  [][Called("createRelation")
       => IF RelationRefused(lastCall')
            THEN /\ lastCall'.outcome \in {"throw:source", "throw:target", "throw:exists"}
                 /\ GraphUnchanged
                 /\ WorkingMemoryUnchanged
            ELSE Returned("relation")]_vars

C8_Witness ==
  /\ Did("createRelation", "throw:target")
  /\ Existing(Persisted, lastCall.entityName)
  /\ Persisted.relations # <<>>

(***************************************************************************)
(* C9.  createEntity, and updateEntity of an existing entity, given a      *)
(* parentEntity name that no entity has, throw and leave the graph file    *)
(* unchanged: after the failed updateEntity the entity has its old         *)
(* parentEntity and its old parent lists it among its children.            *)
(***************************************************************************)
ParentMissing(call) ==
  /\ call.other \notin {NoArg, NoName}
  /\ ~Existing(Persisted, call.other)

Throws(outcome) == outcome \in {"throw:parent", "throw:exists"}

C9_MissingParentChangesNothing ==
  [][(/\ calls' = calls + 1
      /\ \/ lastCall'.op = "createEntity"
         \/ lastCall'.op = "updateEntity" /\ Existing(Persisted, lastCall'.entityName)
      /\ ParentMissing(lastCall'))
       => /\ Throws(lastCall'.outcome)
          /\ GraphUnchanged
          /\ lastCall'.op = "updateEntity" =>
               LET old == EntityNamed(Persisted, lastCall'.entityName)
                   new == EntityNamed(Persisted', lastCall'.entityName)
               IN /\ Returned("throw:parent")
                  /\ Has(new, "parentEntity") = Has(old, "parentEntity")
                  /\ Has(old, "parentEntity") =>
                       Get(new, "parentEntity") = Get(old, "parentEntity")
                  /\ StrTruthy(old, "parentEntity") =>
                       Includes(Children(EntityNamed(Persisted', Get(old, "parentEntity"))),
                                lastCall'.entityName)]_vars

C9_Witness ==
  /\ Did("updateEntity", "throw:parent")
  /\ StrTruthy(EntityNamed(Persisted, lastCall.entityName), "parentEntity")

(***************************************************************************)
(* C10.  Saving the graph loaded from a file that an earlier load-and-save *)
(* wrote gives that same file, and every file written has all its entity   *)
(* records before its relation records.                                    *)
(***************************************************************************)
EntitiesFirst(lines) ==
  /\ \A i \in 1..Len(lines) :
       IsType(JSONparse(lines[i]), "entity") \/ IsType(JSONparse(lines[i]), "relation")
  /\ \A i \in 1..Len(lines) : \A j \in 1..Len(lines) :
       (IsType(JSONparse(lines[i]), "relation") /\ IsType(JSONparse(lines[j]), "entity"))
         => j < i

C10_SaveLoadIdempotent ==
  [][/\ Did("roundTrip", "saved") => (Returned("saved") /\ GraphUnchanged)
     /\ Returned("saved") => EntitiesFirst(memoryFile'.lines)]_vars

C10_Witness ==
  /\ calls = 2
  /\ Did("roundTrip", "saved")
  /\ Cardinality({i \in 1..Len(memoryFile.lines) :
                    IsType(JSONparse(memoryFile.lines[i]), "entity")}) >= 2
  /\ \E i \in 1..Len(memoryFile.lines) : IsType(JSONparse(memoryFile.lines[i]), "relation")

(***************************************************************************)
(* C11.  loadGraph gives the empty graph when there is no graph file,      *)
(* skips blank lines, and throws when a non-blank line is malformed: the   *)
(* operation then ends with that error, having got no graph and written    *)
(* nothing to the graph file.                                              *)
(***************************************************************************)
Malformed(file) ==
  file.exists /\ \E i \in 1..Len(file.lines) : file.lines[i].form \notin {"json", "blank"}

Records(file, t) ==
  Cardinality({i \in 1..Len(file.lines) :
                 file.lines[i].form = "json" /\ IsType(file.lines[i].kv, t)})

C11_LoadAllOrNothing ==
  [][calls' = calls + 1
       => /\ ~memoryFile.exists
               => (loadGraph(memoryFile) = EmptyGraph /\ ~Returned("throw:load"))
          /\ IF Malformed(memoryFile)
               THEN Returned("throw:load") /\ GraphUnchanged
               ELSE /\ ~Returned("throw:load")
                    /\ Len(loadGraph(memoryFile).entities) = Records(memoryFile, "entity")
                    /\ Len(loadGraph(memoryFile).relations)
                         = Records(memoryFile, "relation")]_vars

C11_Witness ==
  /\ Did("createEntity", "throw:load")
  /\ Len(memoryFile.lines) = 3
  /\ IsType(JSONparse(memoryFile.lines[1]), "entity")
  /\ memoryFile.lines[2] = BlankLine

(***************************************************************************)
(* C12.  When calls of createEntity and updateEntity are in flight         *)
(* together, the call that saves last wins: the graph file it leaves holds *)
(* the entities of the graph it loaded and the entity it created, and no   *)
(* other, so an entity that another call created and saved since that load *)
(* is lost although both calls returned it.                                *)
(***************************************************************************)
NamesOf(graph) == {Get(graph.entities[i], "name") : i \in 1..Len(graph.entities)}

Resumed(i) ==
  /\ i \in 1..Len(pending)
  /\ pending[i].loaded
  /\ pending' = removeAt(pending, i)
  /\ calls' = calls + 1

C12_LastSaveWins ==
  [][\A i \in 1..Len(pending) :
       (Resumed(i) /\ Returned("entity"))
         => /\ NamesOf(Persisted')
                 = NamesOf(pending[i].graph)
                     \cup (IF pending[i].op = "createEntity"
                             THEN {pending[i].entityName} ELSE {})
            /\ \A k \in (pending[i].loadedAt + 1)..calls :
                 (/\ history[k].op = "createEntity"
                  /\ history[k].outcome = "entity"
                  /\ history[k].entityName # pending[i].entityName
                  /\ history[k].entityName \notin NamesOf(pending[i].graph))
                   => history[k].entityName \notin NamesOf(Persisted')]_vars

C12_Witness ==
  /\ calls = 2
  /\ pending = <<>>
  /\ \A k \in 1..2 : history[k].op = "createEntity" /\ history[k].outcome = "entity"
  /\ history[1].entityName # history[2].entityName
  /\ NamesOf(Persisted) = {history[2].entityName}

(***************************************************************************)
(* C13.  Every operation eventually returns or throws, also on a hierarchy *)
(* in which updateEntity made an entity its own ancestor.  The search      *)
(* reads the graph file at every step and never writes it, so the          *)
(* traversal of an entity that is begun within the traversal of that same  *)
(* entity, with no limit of depth, begins it again without end:            *)
(* hierarchicalSearch returns only if no open frame repeats an entity.     *)
(***************************************************************************)
C13_SearchReturns ==
  \A s \in 1..Len(pending) :
    (pending[s].op = "hierarchicalSearch" /\ pending[s].maxDepth = Unlimited)
      => \A i \in 1..Len(pending[s].frames) : \A j \in 1..Len(pending[s].frames) :
           pending[s].frames[i].entityName = pending[s].frames[j].entityName => i = j

(***************************************************************************)
(* C14.  After any sequence of operations from the default working memory, *)
(* recentlyDiscussed holds at most 10 entries and at most one entry for an *)
(* entity name, its relevance scores never increase along the list, and    *)
(* activeEntities holds no name twice.                                     *)
(***************************************************************************)
C14_WorkingMemoryShape ==
  LET recent == workingMemory.recentlyDiscussed
      active == workingMemory.activeEntities
  IN /\ Len(recent) <= 10
     /\ \A i \in 1..Len(recent) : \A j \in 1..Len(recent) :
          recent[i].entity = recent[j].entity => i = j
     /\ \A i \in 1..(Len(recent) - 1) :
          recent[i].relevanceScore >= recent[i + 1].relevanceScore
     /\ \A i \in 1..Len(active) : \A j \in 1..Len(active) :
          active[i] = active[j] => i = j

(* An eleventh entity was touched and one entry was raised above the rest. *)
C14_Witness ==
  /\ Len(workingMemory.activeEntities) > 10
  /\ Len(workingMemory.recentlyDiscussed) = 10
  /\ workingMemory.recentlyDiscussed[1].relevanceScore
       > workingMemory.recentlyDiscussed[10].relevanceScore
  /\ workingMemory.recentlyDiscussed[1].entity = "E10"

(***************************************************************************)
(* C15.  getRelations(name, {direction, relationType}) returns exactly the *)
(* stored relations whose to is name when direction is incoming, exactly   *)
(* those whose from is name when it is outgoing, of the given relationType *)
(* when one is given.  So right after createRelation(A, B, t) made a       *)
(* relation, the incoming relations of B include the one from A, and right *)
(* after deleteEntity(A) returned true no incoming relation comes from A   *)
(* and getEntity(A) returns null.                                          *)
(***************************************************************************)
Asked(relation, call) ==
  /\ Get(relation, IF call.other = "incoming" THEN "to" ELSE "from") = call.entityName
  /\ call.relationType # NoArg => Get(relation, "relationType") = call.relationType

Positions(relations, call) == {i \in 1..Len(relations) : Asked(relations[i], call)}

C15_GetRelationsExact ==
  [][((Called("getRelations") /\ Returned("relations")
        /\ lastCall'.other \in {"incoming", "outgoing"})
     => LET stored == Persisted.relations
            returned == lastCall'.returned
            wanted == Positions(stored, lastCall')
        IN /\ \A i \in 1..Len(returned) : Asked(returned[i], lastCall')
           /\ Len(returned) = Cardinality(wanted)
           /\ \A i \in wanted : \E j \in 1..Len(returned) : returned[j] = stored[i]
           /\ (Did("createRelation", "relation")
                 /\ lastCall'.other = "incoming"
                 /\ lastCall'.entityName = lastCall.other
                 /\ lastCall'.relationType \in {NoArg, lastCall.relationType})
                => \E j \in 1..Len(returned) :
                     /\ Get(returned[j], "from") = lastCall.entityName
                     /\ Get(returned[j], "relationType") = lastCall.relationType
           /\ (Did("deleteEntity", "true") /\ lastCall'.other = "incoming")
                => \A j \in 1..Len(returned) :
                     Get(returned[j], "from") # lastCall.entityName)
     /\ ((Did("deleteEntity", "true") /\ Called("getEntity")
           /\ lastCall'.entityName = lastCall.entityName)
          => Returned("null"))]_vars

(* B was asked for its incoming "knows" relations right after A came to    *)
(* know B, while one more relation was stored.                             *)
C15_Witness ==
  /\ lastCall.op = "getRelations"
  /\ lastCall.outcome = "relations"
  /\ lastCall.other = "incoming"
  /\ lastCall.relationType = "knows"
  /\ lastCall.entityName = "B"
  /\ Len(lastCall.returned) = 1
  /\ Len(Persisted.relations) = 2
  /\ history[calls - 1].op = "createRelation"
  /\ history[calls - 1].entityName = "A"

(***************************************************************************)
(* C16.  deleteEntity(E) on an existing entity removes E and no other      *)
(* entity: every child of E (an entity named in E's children or naming E   *)
(* as its parentEntity) is still there afterwards, without parentEntity,   *)
(* and the former parent of E no longer lists E among its children.        *)
(***************************************************************************)
NamesIn(entities) == [i \in 1..Len(entities) |-> Get(entities[i], "name")]

ChildOf(entity, parent) ==
  \/ StrTruthy(entity, "parentEntity") /\ Get(entity, "parentEntity") = Get(parent, "name")
  \/ Includes(Children(parent), Get(entity, "name"))

C16_DeleteRemovesOnlyEntity ==
  [][(Called("deleteEntity") /\ Existing(Persisted, lastCall'.entityName))
       => LET E == lastCall'.entityName
              before == Persisted
              after == Persisted'
              deleted == EntityNamed(before, E)
          IN /\ NamesIn(after.entities)
                  = SelectSeq(NamesIn(before.entities), LAMBDA n : n # E)
             /\ \A i \in 1..Len(before.entities) :
                  LET child == before.entities[i]
                  IN (Get(child, "name") # E /\ ChildOf(child, deleted))
                       => /\ Existing(after, Get(child, "name"))
                          /\ ~Has(EntityNamed(after, Get(child, "name")), "parentEntity")
             /\ (StrTruthy(deleted, "parentEntity")
                   /\ Existing(after, Get(deleted, "parentEntity")))
                  => ~Includes(Children(EntityNamed(after, Get(deleted, "parentEntity"))),
                               E)]_vars

(* The entity deleted had a parent and a child, and both are still there. *)
C16_Witness ==
  \E E \in Names, P \in Names, X \in Names :
    /\ Did("deleteEntity", "true")
    /\ lastCall.entityName = E
    /\ Made("createEntity", E, P, "entity")
    /\ Made("createEntity", X, E, "entity")
    /\ Existing(Persisted, P)
    /\ Existing(Persisted, X)
    /\ ~Existing(Persisted, E)

(***************************************************************************)
(* C17.  When deleteEntity(E) returns true, E is neither in activeEntities *)
(* nor in recentlyDiscussed, in the working memory and in the file it was  *)
(* saved to.                                                               *)
(***************************************************************************)
Remembers(wm, entityName) ==
  \/ Includes(wm.activeEntities, entityName)
  \/ \E i \in 1..Len(wm.recentlyDiscussed) : wm.recentlyDiscussed[i].entity = entityName

C17_DeletedIsForgotten ==
  [][(Called("deleteEntity") /\ Returned("true"))
       => /\ ~Remembers(workingMemory', lastCall'.entityName)
          /\ ~Remembers(workingMemoryFile'.content, lastCall'.entityName)]_vars

(* The entity deleted was remembered until then, and another still is. *)
C17_Witness ==
  /\ Did("deleteEntity", "true")
  /\ Made("createEntity", lastCall.entityName, NoArg, "entity")
  /\ ~Remembers(workingMemory, lastCall.entityName)
  /\ workingMemory.recentlyDiscussed # <<>>

(***************************************************************************)
(* C18.  deprecateEntity(E) on an existing entity stores isDeprecated true *)
(* for E and changes nothing else in the stored graph but E's lastAccessed *)
(* and accessCount: every other property of E, every other entity and      *)
(* every relation are as before.                                           *)
(***************************************************************************)
Touch == {"isDeprecated", "lastAccessed", "accessCount"}

KeysOf(o) == {o[i][1] : i \in 1..Len(o)}

SameBut(e1, e2, keys) ==
  \A k \in (KeysOf(e1) \cup KeysOf(e2)) \ keys : SameValue(e1, k, e2, k)

StoredAccessCount(file, entityName) == AccessCount(EntityNamed(loadGraph(file), entityName))

C19_TouchIncrementsAccessCount ==
  [][((Called("getEntity") \/ Called("updateEntity")) /\ Returned("entity"))
       => StoredAccessCount(memoryFile', lastCall'.entityName)
            > StoredAccessCount(memoryFile, lastCall'.entityName)]_vars

(***************************************************************************)
(* C20.  An entity is reported stale only if it was not accessed within    *)
(* the threshold: an entity accessed at time t, the time working memory    *)
(* records for it, is not reported by findStaleEntities(d) earlier than    *)
(* t + d.                                                                  *)
(***************************************************************************)
AccessedAt(entityName, t) ==
  \E i \in 1..Len(workingMemory.recentlyDiscussed) :
    /\ workingMemory.recentlyDiscussed[i].entity = entityName
    /\ workingMemory.recentlyDiscussed[i].timestamp = t

C20_StaleOnlyAfterThreshold ==
  [][(Called("findStaleEntities") /\ Returned("stale"))
       => \A i \in 1..Len(lastCall'.returned) : \A t \in 0..MaxDays :
            AccessedAt(lastCall'.returned[i], t) => now >= t + lastCall'.other]_vars

(***************************************************************************)
(* C21.  findStaleEntities(thresholdDays, projectId) returns exactly the   *)
(* entities, of the project when one is given, whose lastAccessed is       *)
(* earlier than now minus thresholdDays: an entity last accessed exactly   *)
(* thresholdDays ago is left out, one accessed a day earlier is returned.  *)
(***************************************************************************)
InProject(entity, projectId) ==
  projectId = NoArg \/ (Defined(entity, "projectId") /\ Get(entity, "projectId") = projectId)

C21_StaleBoundary ==
  [][(Called("findStaleEntities") /\ Returned("stale"))
       => LET stored == Persisted.entities
              days == lastCall'.other
              expected == SelectSeq(stored, LAMBDA e :
                            /\ InProject(e, lastCall'.projectId)
                            /\ Get(e, "lastAccessed") + days < now)
          IN /\ lastCall'.returned = NamesIn(expected)
             /\ \A i \in 1..Len(stored) :
                  LET e == stored[i]
                  IN InProject(e, lastCall'.projectId)
                       => /\ Get(e, "lastAccessed") = now - days
                               => ~Includes(lastCall'.returned, Get(e, "name"))
                          /\ Get(e, "lastAccessed") = now - days - 1
                               => Includes(lastCall'.returned, Get(e, "name"))]_vars

(* One entity was last accessed exactly at the cutoff and one a day before *)
(* it; only the second was returned.                                       *)
C21_Witness ==
  /\ lastCall.op = "findStaleEntities"
  /\ lastCall.outcome = "stale"
  /\ Len(lastCall.returned) = 1
  /\ \E i \in 1..Len(Persisted.entities) :
       Get(Persisted.entities[i], "lastAccessed") = now - lastCall.other
  /\ \E i \in 1..Len(Persisted.entities) :
       /\ Get(Persisted.entities[i], "lastAccessed") = now - lastCall.other - 1
       /\ Get(Persisted.entities[i], "name") = lastCall.returned[1]

(***************************************************************************)
(* Text.  A string of the program is a string here; Text gives its         *)
(* characters, so that toLowerCase, includes and the edit distance work on *)
(* what the code works on.  A number that is not whole is a fraction       *)
(* [num, den]; den = 0 is NaN, which compares false with everything.       *)
(***************************************************************************)
Text ==
  ("" :> <<>>) @@
  ("PER" :> <<"P", "E", "R">>) @@
  ("Per" :> <<"P", "e", "r">>) @@
  ("Pet" :> <<"P", "e", "t">>) @@
  ("Jesper" :> <<"J", "e", "s", "p", "e", "r">>) @@
  ("Bob" :> <<"B", "o", "b">>) @@
  ("Bo" :> <<"B", "o">>) @@
  ("Person" :> <<"P", "e", "r", "s", "o", "n">>) @@
  ("Place" :> <<"P", "l", "a", "c", "e">>) @@
  ("tall" :> <<"t", "a", "l", "l">>) @@
  ("saw per" :> <<"s", "a", "w", " ", "p", "e", "r">>) @@
  ("super" :> <<"s", "u", "p", "e", "r">>) @@
  ("old" :> <<"o", "l", "d">>)

UpperCase ==
  ("P" :> "p") @@ ("E" :> "e") @@ ("R" :> "r") @@ ("J" :> "j") @@ ("B" :> "b")

toLowerCase(s) ==
  [i \in 1..Len(s) |-> IF s[i] \in DOMAIN UpperCase THEN UpperCase[s[i]] ELSE s[i]]

StringIncludes(s, sub) ==
  \E k \in 0..(Len(s) - Len(sub)) : SubSeq(s, k + 1, k + Len(sub)) = sub

Fraction(num, den) == [num |-> num, den |-> den]

IsNaN(x) == x.den = 0

Greater(x, y) == ~IsNaN(x) /\ ~IsNaN(y) /\ x.num * y.den > y.num * x.den

AtLeast(x, y) == ~IsNaN(x) /\ ~IsNaN(y) /\ x.num * y.den >= y.num * x.den

Equal(x, y) == ~IsNaN(x) /\ ~IsNaN(y) /\ x.num * y.den = y.num * x.den

Min(a, b) == IF a <= b THEN a ELSE b

Max(a, b) == IF a >= b THEN a ELSE b

(* track[j] from track[j - 1]: row holds track[j][0 .. Len(row) - 1]. *)
RECURSIVE trackRow(_, _, _, _, _)
trackRow(s1, s2, j, prev, row) ==
  IF Len(row) = Len(s1) + 1 THEN row
  ELSE LET i == Len(row)
           indicator == IF s1[i] = s2[j] THEN 0 ELSE 1
       IN trackRow(s1, s2, j, prev,
                   Append(row, Min(Min(row[i] + 1, prev[i + 1] + 1), prev[i] + indicator)))

RECURSIVE track(_, _, _, _)
track(s1, s2, j, prev) ==
  IF j > Len(s2) THEN prev
  ELSE track(s1, s2, j + 1, trackRow(s1, s2, j, prev, <<j>>))

calculateStringDistance(a, b) ==
  LET s1 == toLowerCase(a)
      s2 == toLowerCase(b)
      distance == track(s1, s2, 1, [i \in 1..(Len(s1) + 1) |-> i - 1])[Len(s1) + 1]
      maxLength == Max(Len(s1), Len(s2))
  IN Fraction(maxLength - distance, maxLength)

(***************************************************************************)
(* SearchManager.search.  A filter is an object; the entities returned     *)
(* carry relevanceScore as a fraction.                                     *)
(***************************************************************************)
NameWeight == 10

TypeWeight == 5

TagWeight == 5

ObservationWeight == 3

FuzzyWeight == 7

FuzzyThreshold == Fraction(6, 10)

ScoreScale == 20

AnyIncludes(strings, normalizedQuery) ==
  \E i \in 1..Len(strings) : StringIncludes(toLowerCase(Text[strings[i]]), normalizedQuery)

fieldScore(entity, normalizedQuery) ==
  (IF StringIncludes(toLowerCase(Text[Get(entity, "name")]), normalizedQuery)
     THEN NameWeight ELSE 0)
  + (IF StringIncludes(toLowerCase(Text[Get(entity, "entityType")]), normalizedQuery)
       THEN TypeWeight ELSE 0)
  + (IF Defined(entity, "tags") /\ AnyIncludes(Get(entity, "tags"), normalizedQuery)
       THEN TagWeight ELSE 0)
  + (IF Defined(entity, "observations")
          /\ AnyIncludes(Get(entity, "observations"), normalizedQuery)
       THEN ObservationWeight ELSE 0)

(* Variant: a fuzzy match weighs more than a match of the name. *)
searchScoreFuzzyFirst(entity, query) ==
  LET normalizedQuery == toLowerCase(Text[query])
      nameSimilarity == calculateStringDistance(toLowerCase(Text[Get(entity, "name")]),
                                                normalizedQuery)
      fields == fieldScore(entity, normalizedQuery)
  IN IF Greater(nameSimilarity, FuzzyThreshold)
       THEN Fraction(fields * nameSimilarity.den + 2 * NameWeight * nameSimilarity.num,
                     nameSimilarity.den)
       ELSE Fraction(fields, 1)

searchScore(entity, query) ==
  LET normalizedQuery == toLowerCase(Text[query])
      nameSimilarity == calculateStringDistance(toLowerCase(Text[Get(entity, "name")]),
                                                normalizedQuery)
      fields == fieldScore(entity, normalizedQuery)
  IN IF Greater(nameSimilarity, FuzzyThreshold)
       THEN Fraction(fields * nameSimilarity.den + FuzzyWeight * nameSimilarity.num,
                     nameSimilarity.den)
       ELSE Fraction(fields, 1)

Normalized(score) == Fraction(score.num, ScoreScale * score.den)

RelevanceOf(entity) ==
  IF Defined(entity, "relevanceScore") THEN Get(entity, "relevanceScore") ELSE Fraction(0, 1)

RECURSIVE InsertByScore(_, _)
InsertByScore(sorted, x) ==
  IF sorted = <<>> THEN <<x>>
  ELSE IF AtLeast(RelevanceOf(Head(sorted)), RelevanceOf(x))
         THEN <<Head(sorted)>> \o InsertByScore(Tail(sorted), x)
         ELSE <<x>> \o sorted

RECURSIVE sortByScore(_)
sortByScore(entities) ==
  IF entities = <<>> THEN <<>>
  ELSE InsertByScore(sortByScore(SubSeq(entities, 1, Len(entities) - 1)),
                     entities[Len(entities)])

(* Variant: entities that score nothing are kept. *)
applyTextSearchKeepsAll(entities, query) ==
  sortByScore([i \in 1..Len(entities) |->
                 Set(entities[i], "relevanceScore",
                     Normalized(searchScore(entities[i], query)))])

applyTextSearch(entities, query) ==
  LET matching == SelectSeq(entities, LAMBDA entity :
                    Greater(searchScore(entity, query), Fraction(0, 1)))
  IN sortByScore([i \in 1..Len(matching) |->
                    Set(matching[i], "relevanceScore",
                        Normalized(searchScore(matching[i], query)))])

AccessScale == 10

rankResults(entities, filter) ==
  IF ~StrTruthy(filter, "query")
    THEN sortByScore([i \in 1..Len(entities) |->
           Set(entities[i], "relevanceScore",
               IF AccessCount(entities[i]) # 0
                 THEN Fraction(Min(AccessCount(entities[i]), AccessScale), AccessScale)
                 ELSE Fraction(1, 10))])
    ELSE entities

filterSummaries(summaries, filter) ==
  LET byProject == IF StrTruthy(filter, "projectId")
                     THEN SelectSeq(summaries, LAMBDA entity :
                            SameValue(entity, "projectId", filter, "projectId"))
                     ELSE summaries
      byTypes == IF Defined(filter, "entityTypes") /\ Get(filter, "entityTypes") # <<>>
                   THEN SelectSeq(byProject, LAMBDA entity :
                          Includes(Get(filter, "entityTypes"), Get(entity, "entityType")))
                   ELSE byProject
      byTags == IF Defined(filter, "tags") /\ Get(filter, "tags") # <<>>
                  THEN SelectSeq(byTypes, LAMBDA entity :
                         \E i \in 1..Len(Get(filter, "tags")) :
                           Includes(Get(entity, "tags"), Get(filter, "tags")[i]))
                  ELSE byTypes
      byParent == IF StrTruthy(filter, "parentEntity")
                    THEN SelectSeq(byTags, LAMBDA entity :
                           SameValue(entity, "parentEntity", filter, "parentEntity"))
                    ELSE byTags
      roots == IF Defined(filter, "onlyRootEntities") /\ Get(filter, "onlyRootEntities")
                 THEN SelectSeq(byParent, LAMBDA entity : ~StrTruthy(entity, "parentEntity"))
                 ELSE byParent
  IN IF ~(Defined(filter, "includeDeprecated") /\ Get(filter, "includeDeprecated"))
       THEN SelectSeq(roots, LAMBDA entity : ~Get(entity, "isDeprecated"))
       ELSE roots

searchResults(graph, summaries, filter) ==
  LET filteredEntities == filterSummaries(summaries, filter)
      fullEntities == [i \in 1..Len(filteredEntities) |->
                         graph.entities[findIndex(graph.entities,
                                                  Get(filteredEntities[i], "name"))]]
      created == IF Defined(filter, "createdAfter")
                   THEN SelectSeq(fullEntities, LAMBDA entity :
                          Defined(entity, "createdAt")
                            /\ Get(entity, "createdAt") > Get(filter, "createdAfter"))
                   ELSE fullEntities
      matched == IF StrTruthy(filter, "query")
                   THEN applyTextSearch(created, Get(filter, "query"))
                   ELSE created
      ranked == rankResults(matched, filter)
      relevant == IF Defined(filter, "minRelevance")
                    THEN SelectSeq(ranked, LAMBDA entity :
                           AtLeast(RelevanceOf(entity), Get(filter, "minRelevance")))
                    ELSE ranked
  IN IF Defined(filter, "limit") /\ Get(filter, "limit") > 0
       THEN SubSeq(relevant, 1, Min(Get(filter, "limit"), Len(relevant)))
       ELSE relevant

(* Variant: search writing the entities it returns, scores included, to the graph file. *)
searchPersisting(filter) ==
  LET graph == loadGraph(memoryFile)
      summaries == readGraph(memoryFile, FALSE).entities
      filtered == filterSummaries(summaries, filter)
      returned == searchResults(graph, summaries, filter)
      scored == [i \in 1..Len(graph.entities) |->
                   IF \E j \in 1..Len(returned) :
                        Get(returned[j], "name") = Get(graph.entities[i], "name")
                     THEN returned[CHOOSE j \in 1..Len(returned) :
                            Get(returned[j], "name") = Get(graph.entities[i], "name")]
                     ELSE graph.entities[i]]
      wm == getEntities(workingMemory,
                        [i \in 1..Len(filtered) |-> Get(filtered[i], "name")], now)
  IN /\ ~loadFails(memoryFile)
     /\ history' = Append(history,
                     [op |-> "search", entityName |-> NoArg, other |-> NoArg,
                      relationType |-> NoArg, outcome |-> "results",
                      filter |-> filter, returned |-> returned])
     /\ memoryFile' = saveGraph([graph EXCEPT !.entities = scored])
     /\ workingMemory' = wm
     /\ workingMemoryFile' = IF filtered # <<>> THEN writeWorkingMemory(wm)
                             ELSE workingMemoryFile
     /\ UNCHANGED <<now, pending>>

search(filter) ==
  LET graph == loadGraph(memoryFile)
      summaries == readGraph(memoryFile, FALSE).entities
      filtered == filterSummaries(summaries, filter)
      wm == getEntities(workingMemory,
                        [i \in 1..Len(filtered) |-> Get(filtered[i], "name")], now)
  IN IF loadFails(memoryFile)
       THEN /\ Respond("search", NoArg, NoArg, NoArg, "throw:load")
            /\ UNCHANGED <<memoryFile, workingMemory, workingMemoryFile, now, pending>>
       ELSE /\ history' = Append(history,
                            [op |-> "search", entityName |-> NoArg, other |-> NoArg,
                             relationType |-> NoArg, outcome |-> "results",
                             filter |-> filter,
                             returned |-> searchResults(graph, summaries, filter)])
            /\ workingMemory' = wm
            /\ workingMemoryFile' = IF filtered # <<>> THEN writeWorkingMemory(wm)
                                    ELSE workingMemoryFile
            /\ UNCHANGED <<memoryFile, now, pending>>

(***************************************************************************)
(* SpecText: up to MaxTextCalls calls that make entities with the texts of *)
(* Described, deprecate them, and search them, while days pass.            *)
(***************************************************************************)
Described ==
  { [name |-> "Per", entityType |-> "Person", observations |-> <<"tall">>, tags |-> <<>>],
    [name |-> "Pet", entityType |-> "Place", observations |-> <<"saw per">>, tags |-> <<>>],
    [name |-> "Jesper", entityType |-> "Place", observations |-> <<"tall">>, tags |-> <<>>],
    [name |-> "Bob", entityType |-> "Place", observations |-> <<"tall">>, tags |-> <<>>],
    [name |-> "Bo", entityType |-> "Place", observations |-> <<>>, tags |-> <<"super">>] }

Queries == {<<>>, << <<"query", "PER">> >>}

Structure == {<<>>, << <<"entityTypes", <<"Place">> >> >>}

Rest ==
  { <<>>,
    << <<"limit", 1>> >>,
    << <<"minRelevance", Fraction(1, 2)>> >>,
    << <<"minRelevance", Fraction(1, 2)>>, <<"limit", 1>> >>,
    << <<"createdAfter", 0>> >>,
    << <<"includeDeprecated", TRUE>> >> }

Filters == {q \o s \o r : q \in Queries, s \in Structure, r \in Rest}

NextText ==
  \/ \E d \in Described :
       /\ Within(MaxTextCalls)
       /\ createEntity(d.name, d.entityType, d.observations, NoArg, NoArg, d.tags)
  \/ \E n \in {"Per", "Pet"} : Within(MaxTextCalls) /\ deprecateEntity(n)
  \/ \E filter \in Filters : Within(MaxTextCalls) /\ search(filter)
  \/ now < MaxTextDays /\ Tick

SpecText == Init /\ [][NextText]_vars

(***************************************************************************)
(* searchByRelation, and SpecSearches: the three searches on entities and  *)
(* relations made by up to MaxSearchesCalls calls.                         *)
(***************************************************************************)
RECURSIVE collectNames(_, _, _)
collectNames(relations, direction, names) ==
  IF relations = <<>> THEN names
  ELSE LET relation == Head(relations)
           withFrom == IF direction \in {"from", "both"}
                            /\ ~Includes(names, Get(relation, "from"))
                         THEN Append(names, Get(relation, "from")) ELSE names
           withTo == IF direction \in {"to", "both"}
                          /\ ~Includes(withFrom, Get(relation, "to"))
                       THEN Append(withFrom, Get(relation, "to")) ELSE withFrom
       IN collectNames(Tail(relations), direction, withTo)

relatedNames(graph, relationType, entityName, direction) ==
  LET ofType == SelectSeq(graph.relations, LAMBDA relation :
                  Get(relation, "relationType") = relationType)
      fromName == IF Truthy(entityName) /\ direction \in {"from", "both"}
                    THEN SelectSeq(ofType, LAMBDA relation :
                           Get(relation, "from") = entityName)
                    ELSE ofType
      toName == IF Truthy(entityName) /\ direction \in {"to", "both"}
                  THEN SelectSeq(fromName, LAMBDA relation :
                         Get(relation, "to") = entityName)
                  ELSE fromName
  IN collectNames(toName, direction, <<>>)

searchByRelation(relationType, entityName, direction) ==
  LET graph == loadGraph(memoryFile)
      entityNames == relatedNames(graph, relationType, entityName, direction)
      present == SelectSeq(entityNames, LAMBDA name : someEntity(graph.entities, name))
      wm == getEntities(workingMemory, present, now)
  IN IF loadFails(memoryFile)
       THEN /\ Respond("searchByRelation", entityName, direction, relationType, "throw:load")
            /\ UNCHANGED <<memoryFile, workingMemory, workingMemoryFile, now, pending>>
       ELSE /\ history' = Append(history,
                            [op |-> "searchByRelation", entityName |-> entityName,
                             other |-> direction, relationType |-> relationType,
                             outcome |-> "results",
                             returned |-> [i \in 1..Len(present) |->
                                             graph.entities[findIndex(graph.entities,
                                                                      present[i])]]])
            /\ workingMemory' = wm
            /\ workingMemoryFile' = IF present # <<>> THEN writeWorkingMemory(wm)
                                    ELSE workingMemoryFile
            /\ UNCHANGED <<memoryFile, now, pending>>

Searchable == {"Per", "Pet"}

NextSearches ==
  \/ \E n \in Searchable, p \in {NoArg, "Per"} :
       /\ pending = <<>>
       /\ Within(MaxSearchesCalls)
       /\ createEntity(n, "Person", <<"saw per">>, NoArg, p, <<>>)
  \/ \E a \in Searchable, b \in Searchable :
       /\ pending = <<>>
       /\ Within(MaxSearchesCalls)
       /\ createRelation(a, b, "knows", <<>>)
  \/ \E filter \in Queries :
       /\ pending = <<>>
       /\ Within(MaxSearchesCalls)
       /\ search(filter)
  \/ \E n \in Searchable \cup {NoArg}, direction \in {"from", "to", "both"} :
       /\ pending = <<>>
       /\ Within(MaxSearchesCalls)
       /\ searchByRelation("knows", n, direction)
  \/ \E rootEntityName \in Searchable, includeRoot \in BOOLEAN :
       /\ calls < MaxSearchesCalls
       /\ hierarchicalSearch(rootEntityName, Unlimited, includeRoot)
  \/ traverseChildren

SpecSearches == Init /\ [][NextSearches]_vars

(***************************************************************************)
(* MemoryHealthManager: possible duplicates.  Of what getMemoryHealth      *)
(* returns, the record of the call keeps possibleDuplicates, staleEntities *)
(* and totalEntities.  getMemoryHealth names the two entities of a pair    *)
(* `entities` and findPossibleDuplicates names them `pair`: here both are  *)
(* `pair`.                                                                 *)
(***************************************************************************)
STALE_THRESHOLD_DAYS == 60

SIMILARITY_THRESHOLD == Fraction(85, 100)

nameSimilarity(entityA, entityB) ==
  calculateStringDistance(Text[Get(entityA, "name")], Text[Get(entityB, "name")])

RECURSIVE pairsFrom(_, _, _, _)
pairsFrom(entities, i, j, threshold) ==
  IF i > Len(entities) THEN <<>>
  ELSE IF j > Len(entities) THEN pairsFrom(entities, i + 1, i + 2, threshold)
  ELSE (IF AtLeast(nameSimilarity(entities[i], entities[j]), threshold)
          THEN <<[pair |-> <<entities[i], entities[j]>>,
                  similarity |-> nameSimilarity(entities[i], entities[j])]>>
          ELSE <<>>)
       \o pairsFrom(entities, i, j + 1, threshold)

RECURSIVE typesOf(_, _)
typesOf(entities, types) ==
  IF entities = <<>> THEN types
  ELSE typesOf(Tail(entities),
               IF Includes(types, Get(Head(entities), "entityType")) THEN types
               ELSE Append(types, Get(Head(entities), "entityType")))

RECURSIVE pairsByType(_, _)
pairsByType(entities, types) ==
  IF types = <<>> THEN <<>>
  ELSE pairsFrom(SelectSeq(entities, LAMBDA entity :
                             Get(entity, "entityType") = Head(types)),
                 1, 2, SIMILARITY_THRESHOLD)
       \o pairsByType(entities, Tail(types))

possibleDuplicates(fullEntities) == pairsByType(fullEntities, typesOf(fullEntities, <<>>))

RECURSIVE InsertBySimilarity(_, _)
InsertBySimilarity(sorted, x) ==
  IF sorted = <<>> THEN <<x>>
  ELSE IF AtLeast(Head(sorted).similarity, x.similarity)
         THEN <<Head(sorted)>> \o InsertBySimilarity(Tail(sorted), x)
         ELSE <<x>> \o sorted

RECURSIVE sortBySimilarity(_)
sortBySimilarity(duplicates) ==
  IF duplicates = <<>> THEN <<>>
  ELSE InsertBySimilarity(sortBySimilarity(SubSeq(duplicates, 1, Len(duplicates) - 1)),
                          duplicates[Len(duplicates)])

healthEntities(graph, entityType, projectId) ==
  LET byType == IF Truthy(entityType)
                  THEN SelectSeq(graph.entities, LAMBDA entity :
                         Get(entity, "entityType") = entityType)
                  ELSE graph.entities
  IN IF Truthy(projectId)
       THEN SelectSeq(byType, LAMBDA entity :
              Defined(entity, "projectId") /\ Get(entity, "projectId") = projectId)
       ELSE byType

findPossibleDuplicates(entityType, projectId, options) ==
  LET graph == loadGraph(memoryFile)
      fullEntities == healthEntities(graph, entityType, projectId)
      similarityThreshold == IF Defined(options, "similarityThreshold")
                               THEN Get(options, "similarityThreshold")
                               ELSE SIMILARITY_THRESHOLD
      wm == getEntities(workingMemory, NamesIn(fullEntities), now)
  IN IF loadFails(memoryFile)
       THEN /\ Respond("findPossibleDuplicates", entityType, projectId, NoArg, "throw:load")
            /\ UNCHANGED <<memoryFile, workingMemory, workingMemoryFile, now, pending>>
       ELSE /\ history' = Append(history,
                            [op |-> "findPossibleDuplicates", entityName |-> entityType,
                             other |-> projectId, relationType |-> NoArg,
                             outcome |-> "duplicates", options |-> options,
                             returned |-> sortBySimilarity(
                                            pairsFrom(fullEntities, 1, 2,
                                                      similarityThreshold))])
            /\ workingMemory' = wm
            /\ workingMemoryFile' = IF fullEntities # <<>> THEN writeWorkingMemory(wm)
                                    ELSE workingMemoryFile
            /\ UNCHANGED <<memoryFile, now, pending>>

getMemoryHealth(projectId) ==
  LET graph == loadGraph(memoryFile)
      fullEntities == healthEntities(graph, NoArg, projectId)
      wm == getEntities(workingMemory, NamesIn(fullEntities), now)
  IN IF loadFails(memoryFile)
       THEN /\ Respond("getMemoryHealth", NoArg, projectId, NoArg, "throw:load")
            /\ UNCHANGED <<memoryFile, workingMemory, workingMemoryFile, now, pending>>
       ELSE /\ history' = Append(history,
                            [op |-> "getMemoryHealth", entityName |-> NoArg,
                             other |-> projectId, relationType |-> NoArg,
                             outcome |-> "health",
                             returned |->
                               [totalEntities |-> Len(fullEntities),
                                staleEntities |->
                                  staleEntities(graph, STALE_THRESHOLD_DAYS, projectId, now),
                                possibleDuplicates |-> possibleDuplicates(fullEntities)]])
            /\ workingMemory' = wm
            /\ workingMemoryFile' = IF fullEntities # <<>> THEN writeWorkingMemory(wm)
                                    ELSE workingMemoryFile
            /\ UNCHANGED <<memoryFile, now, pending>>

Alike == {"Per", "PER", "Pet"}

Types == {"Person", "Place"}

Thresholds01 == {<<>>, << <<"similarityThreshold", Fraction(1, 2)>> >>,
                 << <<"similarityThreshold", Fraction(1, 1)>> >>}

NextHealth ==
  \/ \E n \in Alike, entityType \in Types :
       Within(MaxHealthCalls) /\ createEntity(n, entityType, <<"tall">>, NoArg, NoArg, <<>>)
  \/ \E entityType \in Types \cup {NoArg}, options \in Thresholds01 :
       Within(MaxHealthCalls) /\ findPossibleDuplicates(entityType, NoArg, options)
  \/ Within(MaxHealthCalls) /\ getMemoryHealth(NoArg)

SpecHealth == Init /\ [][NextHealth]_vars

(***************************************************************************)
(* SpecDistance: calculateStringDistance on its own.  The two strings are  *)
(* drawn from the strings of Text and wait in `pending`; Compare calls the *)
(* function with them in both orders and records what it returned.         *)
(***************************************************************************)
Strings == DOMAIN Text

InitDistance ==
  /\ memoryFile = [exists |-> FALSE, lines |-> <<>>]
  /\ workingMemory = DefaultWorkingMemory(0)
  /\ workingMemoryFile = [exists |-> FALSE, content |-> DefaultWorkingMemory(0)]
  /\ now = 0
  /\ history = <<>>
  /\ pending \in {<<[a |-> a, b |-> b]>> : a \in Strings, b \in Strings}

Compare ==
  /\ pending # <<>>
  /\ history' = Append(history,
                  [op |-> "calculateStringDistance", entityName |-> pending[1].a,
                   other |-> pending[1].b, relationType |-> NoArg,
                   outcome |-> "similarity",
                   returned |-> calculateStringDistance(Text[pending[1].a],
                                                        Text[pending[1].b]),
                   swapped |-> calculateStringDistance(Text[pending[1].b],
                                                       Text[pending[1].a])])
  /\ pending' = <<>>
  /\ UNCHANGED <<memoryFile, workingMemory, workingMemoryFile, now>>

NextDistance == Compare

SpecDistance == InitDistance /\ [][NextDistance]_vars

(***************************************************************************)
(* The create_entities tool: one createEntity call for each entity of the  *)
(* batch, in order, inside the handler's single try block.  A call that    *)
(* throws ends the handler; what the calls before it saved stays saved.    *)
(***************************************************************************)
RECURSIVE createAll(_, _, _, _, _)
createAll(batch, file, wm, wmFile, t) ==
  IF batch = <<>>
    THEN [memoryFile |-> file, workingMemory |-> wm, workingMemoryFile |-> wmFile,
          outcome |-> "entities"]
  ELSE IF loadFails(file)
    THEN [memoryFile |-> file, workingMemory |-> wm, workingMemoryFile |-> wmFile,
          outcome |-> "throw:load"]
  ELSE LET entity == Head(batch)
           out == createEntityOutcome(loadGraph(file), wm, Get(entity, "name"),
                                      Get(entity, "entityType"), <<>>, NoArg,
                                      NoArg, <<>>, t)
       IN IF out.save
            THEN createAll(Tail(batch), saveGraph(out.graph), out.wm,
                           IF out.wmSaved THEN writeWorkingMemory(out.wm) ELSE wmFile, t)
            ELSE [memoryFile |-> file, workingMemory |-> out.wm,
                  workingMemoryFile |-> wmFile, outcome |-> out.outcome]

create_entities(batch) ==
  LET done == createAll(batch, memoryFile, workingMemory, workingMemoryFile, now)
  IN /\ memoryFile' = done.memoryFile
     /\ workingMemory' = done.workingMemory
     /\ workingMemoryFile' = done.workingMemoryFile
     /\ history' = Append(history,
                     [op |-> "create_entities", entityName |-> NoArg, other |-> NoArg,
                      relationType |-> NoArg, outcome |-> done.outcome,
                      batch |-> batch])
     /\ UNCHANGED <<now, pending>>

BatchEntity == {<< <<"name", n>>, <<"entityType", "Person">> >> : n \in {"Per", "Pet", "Bob"}}

Batches == UNION {[1..n -> BatchEntity] : n \in 1..MaxBatch}

NextBatch ==
  \/ \E n \in {"Per", "Pet", "Bob"} :
       calls < MaxBatchCalls /\ createEntity(n, "Person", <<>>, NoArg, NoArg, <<>>)
  \/ \E batch \in Batches : calls < MaxBatchCalls /\ create_entities(batch)

SpecBatch == Init /\ [][NextBatch]_vars

(***************************************************************************)
(* setCurrentTopic and the ProjectManager.  The ProjectManager changes the *)
(* object that getWorkingMemory returns, which is the manager's own        *)
(* working memory.  Its operations are sequences of engine calls: `Files`  *)
(* is the state between two of them, and After is the state a call leaves. *)
(* The graph file these calls load was written by the call before.         *)
(***************************************************************************)
RecentProjectsLimit == 5

setCurrentTopic(topic) ==
  LET wm == saveWorkingMemory([workingMemory EXCEPT !.currentTopic = topic], now)
  IN /\ workingMemory' = wm
     /\ workingMemoryFile' = writeWorkingMemory(wm)
     /\ Respond("setCurrentTopic", topic, NoArg, NoArg, "none")
     /\ UNCHANGED <<memoryFile, now, pending>>

Files(file, wm, wmFile) ==
  [memoryFile |-> file, workingMemory |-> wm, workingMemoryFile |-> wmFile]

After(files, out) ==
  Files(IF out.save THEN saveGraph(out.graph) ELSE files.memoryFile, out.wm,
        IF out.wmSaved THEN writeWorkingMemory(out.wm) ELSE files.workingMemoryFile)

Finish(op, projectId, outcome, files, wm) ==
  /\ memoryFile' = files.memoryFile
  /\ workingMemory' = wm
  /\ workingMemoryFile' = files.workingMemoryFile
  /\ Respond(op, projectId, NoArg, NoArg, outcome)
  /\ UNCHANGED <<now, pending>>

keepRecentProjects(recentProjects) ==
  IF Len(recentProjects) > RecentProjectsLimit
    THEN SubSeq(recentProjects, 1, RecentProjectsLimit)
    ELSE recentProjects

isProject(file, projectId) ==
  LET graph == loadGraph(file)
  IN /\ someEntity(graph.entities, projectId)
     /\ Get(graph.entities[findIndex(graph.entities, projectId)], "entityType") = "Project"

getProject(files, projectId, t) ==
  After(files, getEntityOutcome(loadGraph(files.memoryFile), files.workingMemory,
                                projectId, t))

createProject(projectName, description) ==
  LET start == Files(memoryFile, workingMemory, workingMemoryFile)
      observations == IF Truthy(description) THEN <<description>>
                      ELSE <<"No description provided">>
      created == createEntityOutcome(loadGraph(memoryFile), workingMemory, projectName,
                                     "Project", observations, projectName, NoArg,
                                     <<"project">>, now)
      afterCreate == After(start, created)
      afterUpdate ==
        After(afterCreate,
              updateEntityOutcome(loadGraph(afterCreate.memoryFile),
                                  afterCreate.workingMemory, projectName,
                                  << <<"observations", observations>>,
                                     <<"entityType", "Project">> >>, now))
      wm == afterUpdate.workingMemory
  IN IF loadFails(memoryFile)
       THEN Finish("createProject", projectName, "throw:load", start, workingMemory)
     ELSE IF created.outcome # "entity"
       THEN Finish("createProject", projectName, created.outcome, afterCreate,
                   afterCreate.workingMemory)
     ELSE Finish("createProject", projectName, "entity", afterUpdate,
                 [wm EXCEPT !.recentProjects =
                    keepRecentProjects(<<[projectId |-> projectName,
                                          lastAccessed |-> now]>> \o @)])

setCurrentProject(projectId) ==
  LET start == Files(memoryFile, workingMemory, workingMemoryFile)
      found == getProject(start, projectId, now)
      wm == found.workingMemory
      others == SelectSeq(wm.recentProjects, LAMBDA p : p.projectId # projectId)
  IN IF loadFails(memoryFile)
       THEN Finish("setCurrentProject", projectId, "throw:load", start, workingMemory)
     ELSE IF ~isProject(memoryFile, projectId)
       THEN Finish("setCurrentProject", projectId, "false", found, wm)
     ELSE Finish("setCurrentProject", projectId, "true", found,
                 [wm EXCEPT !.currentProject = projectId,
                            !.recentProjects =
                              keepRecentProjects(<<[projectId |-> projectId,
                                                    lastAccessed |-> now]>> \o others)])

readProjectGraph(files, projectId, t) ==
  LET entities == loadGraph(files.memoryFile).entities
      projectSummaries ==
        SelectSeq(entities, LAMBDA entity :
          /\ Defined(entity, "projectId") /\ Get(entity, "projectId") = projectId
          /\ ~Get(readGraphSummary(entity), "isDeprecated"))
      wm == getEntities(files.workingMemory, NamesIn(projectSummaries), t)
  IN [names |-> NamesIn(projectSummaries),
      files |-> IF projectSummaries = <<>> THEN files
                ELSE Files(files.memoryFile, wm, writeWorkingMemory(wm))]

RECURSIVE deleteEntities(_, _, _)
deleteEntities(files, names, t) ==
  IF names = <<>> THEN files
  ELSE deleteEntities(After(files,
                            deleteEntityOutcome(loadGraph(files.memoryFile),
                                                files.workingMemory, Head(names), t)),
                      Tail(names), t)

deleteProject(projectId) ==
  LET start == Files(memoryFile, workingMemory, workingMemoryFile)
      found == getProject(start, projectId, now)
      projectEntities == readProjectGraph(found, projectId, now)
      others == SelectSeq(projectEntities.names, LAMBDA name : name # projectId)
      deleted == deleteEntities(projectEntities.files, others \o <<projectId>>, now)
      wm == deleted.workingMemory
  IN IF loadFails(memoryFile)
       THEN Finish("deleteProject", projectId, "throw:load", start, workingMemory)
     ELSE IF ~isProject(memoryFile, projectId)
       THEN Finish("deleteProject", projectId, "false", found, found.workingMemory)
     ELSE Finish("deleteProject", projectId, "true", deleted,
                 [wm EXCEPT !.recentProjects =
                              SelectSeq(@, LAMBDA p : p.projectId # projectId),
                            !.currentProject =
                              IF @ = projectId THEN NoArg ELSE @])

Projects == {"P1", "P2"}

Topics == {"old", "tall"}

NextProjects ==
  \/ \E projectName \in Projects, description \in {NoArg, "old"} :
       calls < MaxProjectCalls /\ createProject(projectName, description)
  \/ \E projectId \in Projects : calls < MaxProjectCalls /\ setCurrentProject(projectId)
  \/ \E projectId \in Projects : calls < MaxProjectCalls /\ deleteProject(projectId)
  \/ \E topic \in Topics : calls < MaxProjectCalls /\ setCurrentTopic(topic)
  \/ \E n \in {"Per", "P1"}, projectId \in Projects :
       calls < MaxProjectCalls /\ createEntity(n, "Person", <<>>, projectId, NoArg, <<>>)
  \/ \E n \in {"Per", "P1"} : calls < MaxProjectCalls /\ getEntity(n)
  \/ \E n \in {"Per", "P1"} : calls < MaxProjectCalls /\ deleteEntity(n)

SpecProjects == Init /\ [][NextProjects]_vars

(***************************************************************************)
(* C22.  In a search with a text query q, every entity whose name contains *)
(* q, letter case aside, comes strictly before every entity that matches q *)
(* in an observation only (not in name, entityType or tags), whatever the  *)
(* fuzzy bonus of the latter: earlier in the results and with a greater    *)
(* relevanceScore.                                                         *)
(***************************************************************************)
Contains(string, q) == StringIncludes(toLowerCase(Text[string]), toLowerCase(Text[q]))

SomeContains(strings, q) == \E i \in 1..Len(strings) : Contains(strings[i], q)

NameMatches(entity, q) == Contains(Get(entity, "name"), q)

OnlyObservationMatches(entity, q) ==
  /\ ~NameMatches(entity, q)
  /\ ~Contains(Get(entity, "entityType"), q)
  /\ ~SomeContains(Get(entity, "tags"), q)
  /\ SomeContains(Get(entity, "observations"), q)

Searched == Called("search") /\ Returned("results")

C22_NameBeforeObservation ==
  [][(Searched /\ StrTruthy(lastCall'.filter, "query"))
       => LET q == Get(lastCall'.filter, "query")
              returned == lastCall'.returned
          IN \A i \in 1..Len(returned) : \A j \in 1..Len(returned) :
               (NameMatches(returned[i], q) /\ OnlyObservationMatches(returned[j], q))
                 => /\ i < j
                    /\ Greater(RelevanceOf(returned[i]), RelevanceOf(returned[j]))]_vars

(* Jesper matched by name only and Pet by an observation, with a fuzzy     *)
(* bonus for its name; Pet was made first.                                 *)
C22_Witness ==
  /\ lastCall.op = "search"
  /\ lastCall.outcome = "results"
  /\ Len(lastCall.returned) = 2
  /\ Get(lastCall.returned[1], "name") = "Jesper"
  /\ Get(lastCall.returned[2], "name") = "Pet"
  /\ Greater(RelevanceOf(lastCall.returned[2]), Fraction(ObservationWeight, ScoreScale))
  /\ Get(Persisted.entities[1], "name") = "Pet"

(***************************************************************************)
(* C23.  A search with a text query returns exactly the entities that pass *)
(* the structural filters and createdAfter and have a text score above 0   *)
(* and a relevanceScore of at least minRelevance, the first limit of them  *)
(* in order of text score, highest first.  An entity that matches the      *)
(* query in no name, type, tag or observation and not fuzzily is never     *)
(* returned.                                                               *)
(***************************************************************************)
Passes(entity, filter) ==
  /\ Defined(filter, "entityTypes")
       => Includes(Get(filter, "entityTypes"), Get(entity, "entityType"))
  /\ (Defined(entity, "isDeprecated") /\ Get(entity, "isDeprecated"))
       => Defined(filter, "includeDeprecated")
  /\ Defined(filter, "createdAfter")
       => Get(entity, "createdAt") > Get(filter, "createdAfter")

MatchesSomewhere(entity, q) ==
  \/ NameMatches(entity, q)
  \/ Contains(Get(entity, "entityType"), q)
  \/ SomeContains(Get(entity, "tags"), q)
  \/ SomeContains(Get(entity, "observations"), q)
  \/ Greater(calculateStringDistance(toLowerCase(Text[Get(entity, "name")]),
                                     toLowerCase(Text[q])),
             FuzzyThreshold)

C23_SearchReturnsMatches ==
  [][(Searched /\ StrTruthy(lastCall'.filter, "query"))
       => LET filter == lastCall'.filter
              q == Get(filter, "query")
              returned == lastCall'.returned
              stored == Persisted.entities
              score == [i \in 1..Len(stored) |-> Normalized(searchScore(stored[i], q))]
              wanted == {i \in 1..Len(stored) :
                           /\ Passes(stored[i], filter)
                           /\ Greater(score[i], Fraction(0, 1))
                           /\ Defined(filter, "minRelevance")
                                => AtLeast(score[i], Get(filter, "minRelevance"))}
              at == [j \in 1..Len(returned) |->
                       findIndex(stored, Get(returned[j], "name"))]
              found == {at[j] : j \in 1..Len(returned)}
          IN /\ found \subseteq wanted
             /\ Len(returned) = Cardinality(found)
             /\ Cardinality(found) = IF Defined(filter, "limit")
                                       THEN Min(Get(filter, "limit"), Cardinality(wanted))
                                       ELSE Cardinality(wanted)
             /\ \A i \in wanted \ found : \A j \in 1..Len(returned) :
                  AtLeast(score[at[j]], score[i])
             /\ \A j \in 1..Len(returned) :
                  /\ MatchesSomewhere(returned[j], q)
                  /\ Equal(RelevanceOf(returned[j]), score[at[j]])
                  /\ j < Len(returned) => AtLeast(score[at[j]], score[at[j + 1]])]_vars

(* Bob, who matches nowhere, and Bo, who matches by a tag, were stored;    *)
(* only Bo was returned.                                                   *)
C23_Witness ==
  /\ lastCall.op = "search"
  /\ lastCall.outcome = "results"
  /\ StrTruthy(lastCall.filter, "query")
  /\ Len(lastCall.returned) = 1
  /\ Get(lastCall.returned[1], "name") = "Bo"
  /\ Existing(Persisted, "Bob")
  /\ ~Defined(lastCall.filter, "limit")
  /\ ~Defined(lastCall.filter, "entityTypes")

(***************************************************************************)
(* C24.  The relevanceScore of every entity that search returns, with or   *)
(* without a text query, lies between 0 and 1.                             *)
(***************************************************************************)
C24_RelevanceInUnitRange ==
  (lastCall.op = "search" /\ lastCall.outcome = "results")
    => \A j \in 1..Len(lastCall.returned) :
         /\ AtLeast(RelevanceOf(lastCall.returned[j]), Fraction(0, 1))
         /\ AtLeast(Fraction(1, 1), RelevanceOf(lastCall.returned[j]))

(***************************************************************************)
(* C25.  search, hierarchicalSearch and searchByRelation never change the  *)
(* stored graph: the graph file is the same after every step of theirs,    *)
(* and no stored entity carries the relevanceScore of a result.            *)
(***************************************************************************)
SearchStep ==
  \/ Called("search")
  \/ Called("searchByRelation")
  \/ Called("hierarchicalSearch")
  \/ pending # <<>>
  \/ pending' # <<>>

C25_SearchesLeaveGraph ==
  [][SearchStep
       => /\ memoryFile' = memoryFile
          /\ \A i \in 1..Len(Persisted'.entities) :
               ~Has(Persisted'.entities[i], "relevanceScore")]_vars

(* A search returned a stored entity with a relevanceScore. *)
C25_Witness ==
  /\ lastCall.op = "search"
  /\ lastCall.outcome = "results"
  /\ lastCall.returned # <<>>
  /\ Defined(lastCall.returned[1], "relevanceScore")
  /\ Existing(Persisted, Get(lastCall.returned[1], "name"))

(***************************************************************************)
(* C26.  Every pair of possible duplicates that getMemoryHealth or         *)
(* findPossibleDuplicates, with any of its arguments, reports is a pair of *)
(* entities of the same entityType, and findPossibleDuplicates with no     *)
(* argument reports the pairs that getMemoryHealth reports.                *)
(***************************************************************************)
SameType(found) == Get(found.pair[1], "entityType") = Get(found.pair[2], "entityType")

PairNames(duplicates) ==
  {<<Get(duplicates[i].pair[1], "name"), Get(duplicates[i].pair[2], "name")>> :
     i \in 1..Len(duplicates)}

C26_DuplicatesShareType ==
  /\ (lastCall.op = "findPossibleDuplicates" /\ lastCall.outcome = "duplicates")
       => /\ \A i \in 1..Len(lastCall.returned) : SameType(lastCall.returned[i])
          /\ (lastCall.entityName = NoArg /\ lastCall.options = <<>>)
               => PairNames(lastCall.returned)
                    = PairNames(possibleDuplicates(Persisted.entities))
  /\ (lastCall.op = "getMemoryHealth" /\ lastCall.outcome = "health")
       => \A i \in 1..Len(lastCall.returned.possibleDuplicates) :
            SameType(lastCall.returned.possibleDuplicates[i])

(***************************************************************************)
(* C27.  The name similarity is symmetric, similarity(A, B) =              *)
(* similarity(B, A) for all strings A and B, and two names that are equal  *)
(* up to letter case have similarity 1.0 and so reach every threshold that *)
(* is at most 1.0.                                                         *)
(***************************************************************************)
SomeThresholds == {Fraction(1, 2), SIMILARITY_THRESHOLD, Fraction(1, 1)}

C27_SimilaritySymmetric ==
  lastCall.op = "calculateStringDistance"
    => /\ Equal(lastCall.returned, lastCall.swapped)
       /\ toLowerCase(Text[lastCall.entityName]) = toLowerCase(Text[lastCall.other])
            => /\ Equal(lastCall.returned, Fraction(1, 1))
               /\ \A threshold \in SomeThresholds :
                    AtLeast(lastCall.returned, threshold)

(***************************************************************************)
(* C28.  In a batch create, the failure of one entity does not keep the    *)
(* other entities of the batch from being created: after create_entities,  *)
(* every entity of the batch that is valid on its own (its name was not in *)
(* the graph and is not repeated from earlier in the batch) exists.        *)
(***************************************************************************)
ValidAlone(batch, i) ==
  /\ ~Existing(Persisted, Get(batch[i], "name"))
  /\ \A j \in 1..(i - 1) : Get(batch[j], "name") # Get(batch[i], "name")

C28_BatchCreatesEveryValid ==
  [][Called("create_entities")
       => \A i \in 1..Len(lastCall'.batch) :
            ValidAlone(lastCall'.batch, i)
              => Existing(Persisted', Get(lastCall'.batch[i], "name"))]_vars

(***************************************************************************)
(* C29.  The working-memory file is saved after every change of the        *)
(* working-memory context: when a call (a touch, setCurrentTopic,          *)
(* deleteEntity, setCurrentProject, createProject, deleteProject) that     *)
(* changed the context has completed, the file holds the context that is   *)
(* in memory, lastUpdated aside.                                           *)
(***************************************************************************)
Context(wm) == [wm EXCEPT !.lastUpdated = 0]

C29_WorkingMemorySaved ==
  [][(calls' = calls + 1 /\ Context(workingMemory') # Context(workingMemory))
       => /\ workingMemoryFile'.exists
          /\ Context(workingMemoryFile'.content) = Context(workingMemory')]_vars

(***************************************************************************)
(* C30.  Deprecating an entity marks it with the flag and with a tag:      *)
(* after deprecateEntity(E) on an existing entity, the stored E has        *)
(* isDeprecated true and "deprecated" among its tags.                      *)
(***************************************************************************)
C30_DeprecateFlagsAndTags ==
  [][(Called("deprecateEntity") /\ Returned("entity"))
       => LET E == EntityNamed(Persisted', lastCall'.entityName)
          IN /\ Defined(E, "isDeprecated") /\ Get(E, "isDeprecated") = TRUE
             /\ Defined(E, "tags") /\ Includes(Get(E, "tags"), "deprecated")]_vars

(***************************************************************************)
(* Adding observations.  addObservations is the method of the manager of   *)
(* the single-file server (index.ts), whose graph file, working memory and *)
(* touch are those above; add_observations is the tool handler of the      *)
(* modular server, a getEntity and an updateEntity for each item.  An item *)
(* is [entityName, contents].                                              *)
(***************************************************************************)
addContents(entity, contents, t) ==
  LET stored == Get(entity, "observations")
      newObservations == SelectSeq(contents, LAMBDA content : ~Includes(stored, content))
      accessed == Set(Set(entity, "lastAccessed", t), "accessCount", AccessCount(entity) + 1)
      scored == Set(accessed, "relevanceScore",
                    (IF Defined(entity, "relevanceScore")
                       THEN Get(entity, "relevanceScore") ELSE 0) + RelevanceStep)
  IN Set(scored, "observations", stored \o newObservations)

RECURSIVE addObservationsTo(_, _, _, _)
addObservationsTo(graph, wm, observations, t) ==
  IF observations = <<>> THEN [graph |-> graph, wm |-> wm, outcome |-> "results"]
  ELSE LET o == Head(observations)
           entityIndex == findIndex(graph.entities, o.entityName)
       IN IF entityIndex = 0
            THEN [graph |-> graph, wm |-> wm, outcome |-> "throw:notfound"]
            ELSE addObservationsTo(
                   [graph EXCEPT !.entities[entityIndex] = addContents(@, o.contents, t)],
                   updateEntityAccess(wm, o.entityName, t), Tail(observations), t)

addObservations(observations) ==
  LET done == addObservationsTo(loadGraph(memoryFile), workingMemory, observations, now)
  IN IF loadFails(memoryFile)
       THEN /\ history' = Append(history,
                            [op |-> "addObservations", entityName |-> NoArg,
                             other |-> NoArg, relationType |-> NoArg,
                             outcome |-> "throw:load", batch |-> observations])
            /\ UNCHANGED <<memoryFile, workingMemory, workingMemoryFile, now, pending>>
       ELSE /\ memoryFile' = IF done.outcome = "results" THEN saveGraph(done.graph)
                             ELSE memoryFile
            /\ workingMemory' = done.wm
            /\ workingMemoryFile' = IF done.wm # workingMemory
                                      THEN writeWorkingMemory(done.wm)
                                      ELSE workingMemoryFile
            /\ history' = Append(history,
                            [op |-> "addObservations", entityName |-> NoArg,
                             other |-> NoArg, relationType |-> NoArg,
                             outcome |-> done.outcome, batch |-> observations])
            /\ UNCHANGED <<now, pending>>

RECURSIVE addEach(_, _, _)
addEach(files, observations, t) ==
  IF observations = <<>> THEN files
  ELSE LET observation == Head(observations)
           graph == loadGraph(files.memoryFile)
           found == After(files, getEntityOutcome(graph, files.workingMemory,
                                                  observation.entityName, t))
           entity == graph.entities[findIndex(graph.entities, observation.entityName)]
       IN IF ~someEntity(graph.entities, observation.entityName)
            THEN addEach(found, Tail(observations), t)
            ELSE addEach(
                   After(found,
                         updateEntityOutcome(
                           loadGraph(found.memoryFile), found.workingMemory,
                           observation.entityName,
                           << <<"observations",
                                Get(entity, "observations") \o observation.contents>> >>,
                           t)),
                   Tail(observations), t)

add_observations(observations) ==
  LET done == addEach(Files(memoryFile, workingMemory, workingMemoryFile),
                      observations, now)
  IN IF loadFails(memoryFile)
       THEN /\ history' = Append(history,
                            [op |-> "add_observations", entityName |-> NoArg,
                             other |-> NoArg, relationType |-> NoArg,
                             outcome |-> "throw:load", batch |-> observations])
            /\ UNCHANGED <<memoryFile, workingMemory, workingMemoryFile, now, pending>>
       ELSE /\ memoryFile' = done.memoryFile
            /\ workingMemory' = done.workingMemory
            /\ workingMemoryFile' = done.workingMemoryFile
            /\ history' = Append(history,
                            [op |-> "add_observations", entityName |-> NoArg,
                             other |-> NoArg, relationType |-> NoArg,
                             outcome |-> "results", batch |-> observations])
            /\ UNCHANGED <<now, pending>>

Contents == UNION {[1..n -> {"tall", "old"}] : n \in 1..MaxContents}

Items == {[entityName |-> n, contents |-> contents] : n \in {"Per", "Pet"}, contents \in Contents}

ItemLists == UNION {[1..n -> Items] : n \in 1..MaxItems}

NextObservations ==
  \/ \E n \in {"Per", "Pet"} :
       calls < MaxObservationCalls
         /\ createEntity(n, "Person", <<"tall">>, NoArg, NoArg, <<>>)
  \/ \E observations \in ItemLists :
       calls < MaxObservationCalls /\ addObservations(observations)
  \/ \E observations \in ItemLists :
       calls < MaxObservationCalls /\ add_observations(observations)

SpecObservations == Init /\ [][NextObservations]_vars

(***************************************************************************)
(* The create_relations tool: one createRelation call for each relation of *)
(* the batch, in order; a call that throws ends the handler.  A confidence *)
(* is a number of tenths.                                                  *)
(***************************************************************************)
RECURSIVE createAllRelations(_, _, _)
createAllRelations(files, batch, t) ==
  IF batch = <<>> THEN [files |-> files, outcome |-> "relations"]
  ELSE LET relation == Head(batch)
           out == createRelationOutcome(
                    loadGraph(files.memoryFile), files.workingMemory,
                    Get(relation, "from"), Get(relation, "to"),
                    Get(relation, "relationType"),
                    IF Defined(relation, "metadata") THEN Get(relation, "metadata")
                    ELSE <<>>, t)
       IN IF out.save THEN createAllRelations(After(files, out), Tail(batch), t)
          ELSE [files |-> After(files, out), outcome |-> out.outcome]

create_relations(batch) ==
  LET done == createAllRelations(Files(memoryFile, workingMemory, workingMemoryFile),
                                 batch, now)
  IN IF loadFails(memoryFile)
       THEN /\ history' = Append(history,
                            [op |-> "create_relations", entityName |-> NoArg,
                             other |-> NoArg, relationType |-> NoArg,
                             outcome |-> "throw:load", batch |-> batch])
            /\ UNCHANGED <<memoryFile, workingMemory, workingMemoryFile, now, pending>>
       ELSE /\ memoryFile' = done.files.memoryFile
            /\ workingMemory' = done.files.workingMemory
            /\ workingMemoryFile' = done.files.workingMemoryFile
            /\ history' = Append(history,
                            [op |-> "create_relations", entityName |-> NoArg,
                             other |-> NoArg, relationType |-> NoArg,
                             outcome |-> done.outcome, batch |-> batch])
            /\ UNCHANGED <<now, pending>>

Confidences == {0, 5, 10}

MetadataInputs ==
  {<<>>, << <<"metadata", <<>> >> >>, << <<"metadata", << <<"source", "old">> >> >> >>}
    \cup {<< <<"metadata", << <<"confidence", c>> >> >> >> : c \in Confidences}

RelationInputs ==
  {<< <<"from", a>>, <<"to", b>>, <<"relationType", "knows">> >> \o metadata :
     a \in {"Per", "Pet"}, b \in {"Per", "Pet"}, metadata \in MetadataInputs}

RelationBatches == UNION {[1..n -> RelationInputs] : n \in 1..MaxRelationBatch}

NextConfidence ==
  \/ \E n \in {"Per", "Pet"} :
       calls < MaxConfidenceCalls /\ createEntity(n, "Person", <<>>, NoArg, NoArg, <<>>)
  \/ \E batch \in RelationBatches :
       calls < MaxConfidenceCalls /\ create_relations(batch)

SpecConfidence == Init /\ [][NextConfidence]_vars

(***************************************************************************)
(* SpecDescend: hierarchicalSearch, to every depth, on the hierarchies of  *)
(* three entities that up to MaxDescendCalls calls of createEntity and     *)
(* updateEntity build.                                                     *)
(***************************************************************************)
Family == {"A", "B", "C"}

Depths == {Unlimited, 0, 1, 2}

NextDescend ==
  \/ \E n \in Family, p \in Family \cup {NoArg} :
       /\ pending = <<>>
       /\ Within(MaxDescendCalls)
       /\ createEntity(n, "Person", <<>>, NoArg, p, <<>>)
  \/ \E n \in Family, p \in Family :
       /\ pending = <<>>
       /\ Within(MaxDescendCalls)
       /\ updateEntity(n, << <<"parentEntity", p>> >>)
  \/ \E rootEntityName \in Family, maxDepth \in Depths, includeRoot \in BOOLEAN :
       hierarchicalSearch(rootEntityName, maxDepth, includeRoot)
  \/ traverseChildren

SpecDescend == Init /\ [][NextDescend]_vars

(***************************************************************************)
(* SpecDeleteProject: deleteProject on a project with entities, some of    *)
(* them deprecated, and relations between them.                            *)
(***************************************************************************)
Members == {"Per", "Pet"}

NextDeleteProject ==
  \/ calls < MaxDeleteProjectCalls /\ createProject("P1", NoArg)
  \/ \E n \in Members :
       calls < MaxDeleteProjectCalls
         /\ createEntity(n, "Person", <<>>, "P1", NoArg, <<>>)
  \/ \E n \in Members \cup {"P1"} : calls < MaxDeleteProjectCalls /\ deprecateEntity(n)
  \/ \E a \in Members, b \in Members \cup {"P1"} :
       calls < MaxDeleteProjectCalls /\ createRelation(a, b, "knows", <<>>)
  \/ calls < MaxDeleteProjectCalls /\ setCurrentProject("P1")
  \/ calls < MaxDeleteProjectCalls /\ deleteProject("P1")

SpecDeleteProject == Init /\ [][NextDeleteProject]_vars

(***************************************************************************)
(* SpecStartup: the manager right after its construction.  The constructor *)
(* sets the default working memory and starts loadWorkingMemory without    *)
(* waiting for it; pending holds that load: first fs.readFile reads the    *)
(* working-memory file, later the rest of loadWorkingMemory runs on what   *)
(* was read.  Up to MaxStartupCalls calls run before, between and after    *)
(* the two steps.  The files are those an earlier session left: none, the  *)
(* files after createEntity('A'), or those after a setCurrentTopic more.   *)
(***************************************************************************)
loadWorkingMemory(wm, data) == IF data.exists THEN data.content ELSE wm

NoSession ==
  Files([exists |-> FALSE, lines |-> <<>>], DefaultWorkingMemory(0),
        [exists |-> FALSE, content |-> DefaultWorkingMemory(0)])

SessionOfCreate ==
  After(NoSession,
        createEntityOutcome(EmptyGraph, DefaultWorkingMemory(0), "A", "Person",
                            <<"o1">>, NoArg, NoArg, <<>>, 0))

SessionOfTopic ==
  LET wm == saveWorkingMemory([SessionOfCreate.workingMemory
                                 EXCEPT !.currentTopic = "old"], 0)
  IN Files(SessionOfCreate.memoryFile, wm, writeWorkingMemory(wm))

EarlierSessions == {NoSession, SessionOfCreate, SessionOfTopic}

StartupTopics == {"new"}

InitStartup ==
  \E session \in EarlierSessions :
    /\ memoryFile = session.memoryFile
    /\ workingMemoryFile = session.workingMemoryFile
    /\ workingMemory = DefaultWorkingMemory(0)
    /\ now = 0
    /\ history = <<>>
    /\ pending = <<[op |-> "loadWorkingMemory", read |-> FALSE,
                    data |-> NoSession.workingMemoryFile]>>

ReadWorkingMemoryFile ==
  /\ pending # <<>>
  /\ ~pending[1].read
  /\ pending' = <<[pending[1] EXCEPT !.read = TRUE, !.data = workingMemoryFile]>>
  /\ UNCHANGED <<memoryFile, workingMemory, workingMemoryFile, now, history>>

LoadWorkingMemory ==
  /\ pending # <<>>
  /\ pending[1].read
  /\ workingMemory' = loadWorkingMemory(workingMemory, pending[1].data)
  /\ pending' = <<>>
  /\ UNCHANGED <<memoryFile, workingMemoryFile, now, history>>

NextStartup ==
  \/ ReadWorkingMemoryFile
  \/ LoadWorkingMemory
  \/ \E n \in CascadeNames :
       /\ calls < MaxStartupCalls
       /\ getEntity(n)
  \/ \E n \in CascadeNames :
       /\ calls < MaxStartupCalls
       /\ createEntity(n, "Person", <<"o1">>, NoArg, NoArg, <<>>)
  \/ \E topic \in StartupTopics :
       /\ calls < MaxStartupCalls
       /\ setCurrentTopic(topic)

SpecStartup == InitStartup /\ [][NextStartup]_vars

(***************************************************************************)
(* C31.  When observations are appended to an entity, a text that occurs   *)
(* twice in the one call is stored once, and a text that an earlier call   *)
(* stored is stored again: a call that adds a text to E leaves one more    *)
(* copy of the text in E's observations than there was.                    *)
(***************************************************************************)
Count(seq, x) == Cardinality({i \in 1..Len(seq) : seq[i] = x})

AddsTo(batch, entityName, text) ==
  \E i \in 1..Len(batch) :
    batch[i].entityName = entityName /\ Includes(batch[i].contents, text)

C31_AppendDedupsWithinBatchOnly ==
  [][((Called("addObservations") \/ Called("add_observations")) /\ Returned("results"))
       => LET before == Persisted
              after == Persisted'
          IN \A i \in 1..Len(before.entities) : \A text \in {"tall", "old"} :
               AddsTo(lastCall'.batch, Get(before.entities[i], "name"), text)
                 => Count(Get(after.entities[i], "observations"), text)
                      = Count(Get(before.entities[i], "observations"), text) + 1]_vars

(***************************************************************************)
(* C32.  createRelation stores metadata.confidence 1.0 exactly when the    *)
(* caller supplies no confidence: a confidence the caller supplies, 0      *)
(* included, is stored as given.                                           *)
(***************************************************************************)
Supplied(relation) ==
  Defined(relation, "metadata") /\ Defined(Get(relation, "metadata"), "confidence")

StoredConfidence(graph, relation) ==
  Get(Metadata(graph.relations[findRelationIndex(graph.relations, Get(relation, "from"),
                                                 Get(relation, "to"),
                                                 Get(relation, "relationType"))]),
      "confidence")

C32_ConfidenceAsGiven ==
  [][(Called("create_relations") /\ Returned("relations"))
       => \A i \in 1..Len(lastCall'.batch) :
            StoredConfidence(Persisted', lastCall'.batch[i])
              = IF Supplied(lastCall'.batch[i])
                  THEN Get(Get(lastCall'.batch[i], "metadata"), "confidence")
                  ELSE DefaultConfidence]_vars

(***************************************************************************)
(* C33.  searchByRelation(type, entity, 'both') returns the entities at    *)
(* the two ends of every relation of that type that has entity as its from *)
(* or as its to: the union of the names those relations reference.         *)
(***************************************************************************)
EndsOfRelationsAt(graph, relationType, entityName) ==
  UNION {{Get(graph.relations[i], "from"), Get(graph.relations[i], "to")} :
           i \in {j \in 1..Len(graph.relations) :
                    /\ Get(graph.relations[j], "relationType") = relationType
                    /\ \/ Get(graph.relations[j], "from") = entityName
                       \/ Get(graph.relations[j], "to") = entityName}}

C33_BothEndsOfEitherDirection ==
  (lastCall.op = "searchByRelation" /\ lastCall.outcome = "results"
     /\ lastCall.other = "both" /\ lastCall.entityName # NoArg)
    => {Get(lastCall.returned[i], "name") : i \in 1..Len(lastCall.returned)}
         = EndsOfRelationsAt(Persisted, lastCall.relationType, lastCall.entityName)

(***************************************************************************)
(* C34.  On an acyclic hierarchy, hierarchicalSearch(root, maxDepth,       *)
(* includeRoot) returns exactly the descendants of root that the children  *)
(* links reach within maxDepth levels (all of them when maxDepth is -1,    *)
(* none when it is 0), each once, after root if and only if includeRoot is *)
(* true; it returns the empty list when root does not exist.               *)
(***************************************************************************)
ChildrenOf(graph, names) ==
  UNION {{Children(graph.entities[i])[k] : k \in 1..Len(Children(graph.entities[i]))} :
           i \in {j \in 1..Len(graph.entities) : Get(graph.entities[j], "name") \in names}}

RECURSIVE Reach(_, _, _)
Reach(graph, names, levels) ==
  IF levels = 0 \/ names = {} THEN {}
  ELSE ChildrenOf(graph, names) \cup Reach(graph, ChildrenOf(graph, names), levels - 1)

Descendants(graph, name) == Reach(graph, {name}, Len(graph.entities))

Acyclic(graph) ==
  \A i \in 1..Len(graph.entities) :
    Get(graph.entities[i], "name") \notin Descendants(graph, Get(graph.entities[i], "name"))

C34_HierarchicalSearchExact ==
  (lastCall.op = "hierarchicalSearch" /\ Acyclic(Persisted))
    => LET graph == Persisted
           root == lastCall.entityName
           returned == lastCall.returned
           below == IF lastCall.includeRoot THEN Tail(returned) ELSE returned
       IN IF ~Existing(graph, root) THEN returned = <<>>
          ELSE /\ lastCall.includeRoot => (returned # <<>> /\ returned[1] = root)
               /\ \A i \in 1..Len(below) : \A j \in 1..Len(below) :
                    below[i] = below[j] => i = j
               /\ {below[i] : i \in 1..Len(below)}
                    = IF lastCall.maxDepth = Unlimited THEN Descendants(graph, root)
                      ELSE Reach(graph, {root}, lastCall.maxDepth)

(* A search one level deep from a root that has a child and a grandchild  *)
(* returned the child alone.                                              *)
C34_Witness ==
  /\ lastCall.op = "hierarchicalSearch"
  /\ Acyclic(Persisted)
  /\ lastCall.maxDepth = 1
  /\ ~lastCall.includeRoot
  /\ Len(lastCall.returned) = 1
  /\ Cardinality(Descendants(Persisted, lastCall.entityName)) = 2

(***************************************************************************)
(* C35.  deleteProject(P) deletes the project and all its entities: after  *)
(* it returned true the graph has no entity whose projectId is P, the      *)
(* deprecated ones included, and no relation that references a deleted     *)
(* entity, and P is neither the currentProject of the working memory nor   *)
(* among its recentProjects.                                               *)
(***************************************************************************)
C35_DeleteProjectDeletesAll ==
  [][(Called("deleteProject") /\ Returned("true"))
       => LET before == Persisted
              after == Persisted'
              P == lastCall'.entityName
              deleted == {Get(before.entities[i], "name") : i \in 1..Len(before.entities)}
                           \ {Get(after.entities[i], "name") : i \in 1..Len(after.entities)}
          IN /\ \A i \in 1..Len(after.entities) :
                  ~(Defined(after.entities[i], "projectId")
                      /\ Get(after.entities[i], "projectId") = P)
             /\ \A i \in 1..Len(after.relations) :
                  /\ Get(after.relations[i], "from") \notin deleted
                  /\ Get(after.relations[i], "to") \notin deleted
             /\ workingMemory'.currentProject # P
             /\ \A i \in 1..Len(workingMemory'.recentProjects) :
                  workingMemory'.recentProjects[i].projectId # P]_vars

(***************************************************************************)
(* C36.  After any sequence of engine operations from an empty graph file, *)
(* the from and the to of every persisted relation name an entity of the   *)
(* persisted graph: no operation leaves a dangling relation.               *)
(***************************************************************************)
C36_NoDanglingRelation ==
  LET graph == Persisted
  IN \A i \in 1..Len(graph.relations) :
       /\ someEntity(graph.entities, Get(graph.relations[i], "from"))
       /\ someEntity(graph.entities, Get(graph.relations[i], "to"))

(* An entity was deleted and a relation between the entities that are left *)
(* is still stored.                                                        *)
C36_Witness ==
  /\ Did("deleteEntity", "true")
  /\ Persisted.relations # <<>>
  /\ \E i \in 1..Len(history) :
       /\ history[i].op = "createRelation" /\ history[i].outcome = "relation"
       /\ lastCall.entityName \in {history[i].entityName, history[i].other}

(***************************************************************************)
(* C37.  Whenever no operation is in progress, every name among the        *)
(* activeEntities and the recentlyDiscussed of the working memory is the   *)
(* name of an entity of the persisted graph, also when calls of getEntity  *)
(* are in flight together with a deleteEntity of the same entity.          *)
(***************************************************************************)
C37_WorkingMemoryNamesExist ==
  pending = <<>>
    => LET graph == Persisted
       IN /\ \A i \in 1..Len(workingMemory.activeEntities) :
               someEntity(graph.entities, workingMemory.activeEntities[i])
          /\ \A i \in 1..Len(workingMemory.recentlyDiscussed) :
               someEntity(graph.entities, workingMemory.recentlyDiscussed[i].entity)

(***************************************************************************)
(* C38.  getRelations(name) with the direction both, the default, returns  *)
(* every relation that has name as its from or as its to exactly once, a   *)
(* relation from name to itself included, and no other relation.           *)
(***************************************************************************)
C38_BothReturnsEachOnce ==
  (lastCall.op = "getRelations" /\ lastCall.outcome = "relations"
     /\ lastCall.other \in {NoArg, "both"})
    => LET stored == Persisted.relations
       IN \A i \in 1..Len(stored) :
            Count(lastCall.returned, stored[i])
              = IF /\ lastCall.entityName \in {Get(stored[i], "from"), Get(stored[i], "to")}
                   /\ lastCall.relationType # NoArg
                        => Get(stored[i], "relationType") = lastCall.relationType
                  THEN 1 ELSE 0

(***************************************************************************)
(* C39.  Right after a touch of entity E (a getEntity, createEntity or     *)
(* updateEntity that returned the entity, or a createRelation that made a  *)
(* relation with E at one end), E is in recentlyDiscussed, also when the   *)
(* list held 10 entries before the touch.                                  *)
(***************************************************************************)
Discussed(wm, entityName) ==
  \E i \in 1..Len(wm.recentlyDiscussed) : wm.recentlyDiscussed[i].entity = entityName

C39_TouchedIsDiscussed ==
  [][/\ ((Called("getEntity") \/ Called("createEntity") \/ Called("updateEntity"))
           /\ Returned("entity"))
          => Discussed(workingMemory', lastCall'.entityName)
     /\ (Called("createRelation") /\ Returned("relation"))
          => /\ Discussed(workingMemory', lastCall'.entityName)
             /\ Discussed(workingMemory', lastCall'.other)]_vars

(***************************************************************************)
(* C40.  When the load that the constructor started completes, every       *)
(* entity touched since the construction is still in activeEntities, and   *)
(* a topic set since the construction is still the current topic.          *)
(***************************************************************************)
LoadCompletes == pending # <<>> /\ pending' = <<>>

C40_StartupLoadKeepsChanges ==
  [][LoadCompletes =>
       /\ \A i \in 1..Len(history) :
            history[i].outcome = "entity"
              => Includes(workingMemory'.activeEntities, history[i].entityName)
       /\ (\E i \in 1..Len(history) : history[i].op = "setCurrentTopic")
            => workingMemory'.currentTopic = workingMemory.currentTopic]_vars

====
